---- MODULE Spec2Model ----
(***************************************************************************)
(* Model of the range-keyed cache and the activity fetcher of the          *)
(* OpenRouter analyzer extension (src/src/extension/modules/api.ts), of    *)
(* the content script that drives them and of the data processor.          *)
(*                                                                         *)
(* localStorage is a finite map from keys to strings.  A key is kept in    *)
(* its '_'-split form (the sequence key.split('_')), so that               *)
(* cacheKey.split('_').pop() is the last element of the sequence and       *)
(* startsWith(prefix) is a comparison of leading segments.                 *)
(* Time is Date.now() in milliseconds since the start of the behaviour.    *)
(***************************************************************************)
EXTENDS Integers, Sequences, FiniteSets, TLC

VARIABLES
  store,      \* localStorage: [set of keys -> STRING]
  now,        \* Date.now()
  DEV_MODE,   \* debug.ts: export let DEV_MODE
  inflight,   \* fetchActivityData calls suspended at `await fetch(...)`
  calls,      \* number of fetchActivityData calls started so far
  obs,        \* what the handler that ran in the last step did and returned
  page,       \* the page the content script runs in, and its pipeline runs
  agg,        \* the response given to the data processor, and its result
  log,        \* the Logger: its level, the stored entries, its last call
  written     \* history: for each payload in store, the set that stored it

vars == <<store, now, DEV_MODE, inflight, calls, obs, page, agg, log, written>>

(***************************************************************************)
(* Bounds of the model.                                                    *)
(***************************************************************************)
MaxDay == 2          \* requests of Spec use the days 1..MaxDay (and null)
MaxTicks == 2        \* Date.now() advances at most MaxTicks times
MaxCalls == 3        \* fetchActivityData calls per behaviour of Spec
MaxDevDay == 1       \* requests of SpecDev use the days 1..MaxDevDay (and null)
MaxDevCalls == 2     \* fetchActivityData calls per behaviour of SpecDev
MaxEvictCalls == 12  \* fetchActivityData calls per behaviour of SpecEvict
MaxInflight == 1     \* calls suspended at the network at the same time
MaxEvictDay == 11    \* requests of SpecEvict are [d, MaxEvictDay], d in 1..MaxEvictDay
MaxTtlTicks == 2     \* Date.now() advances at most MaxTtlTicks times in SpecTtl
MaxPipeRuns == 2     \* pipeline runs suspended at the network at once in SpecPipe
MaxPipeCalls == 3    \* pipeline runs per behaviour of SpecPipe
MaxTx == 3           \* transactions in a response of SpecAgg
MaxLogCalls == 3     \* calls of Logger functions per behaviour of SpecLog
MaxMsgSlots == 2     \* pipeline runs in flight at once in SpecMsg
MaxMsgRuns == 2      \* pipeline runs per behaviour of SpecMsg
MaxRequests == 3     \* HTTP requests per behaviour of SpecServer

(***************************************************************************)
(* Program constants (api.ts:4-16).                                        *)
(***************************************************************************)
CACHE_KEY == <<"openrouter", "dev", "cache">>
CACHE_EXPIRY_KEY == <<"openrouter", "dev", "cache", "expiry">>
CACHE_DURATION == 30 * 60 * 1000
TRANSACTION_CACHE_PREFIX == <<"openrouter", "transaction", "cache">>
TRANSACTION_CACHE_EXPIRY_PREFIX == <<"openrouter", "transaction", "expiry">>
TRANSACTION_CACHE_DURATION == 15 * 60 * 1000
CACHE_VERSION == "v2"
CACHE_CLEANUP_INTERVAL == 24 * 60 * 60 * 1000
MAX_CACHE_ENTRIES == 10
lastCleanupKey == <<"openrouter", "last", "cache", "cleanup">>

\* One step of the clock: ten minutes, so that an entry is live one step after
\* it is stored and expired two steps after.
TickMs == 10 * 60 * 1000

\* A longer step of the clock: twenty minutes, so that one step after a
\* response is stored its range entry is expired and its dev-cache copy is
\* live, and two steps after both are expired.
TtlTickMs == 20 * 60 * 1000

\* JavaScript's null (a missing parameter, getItem of an absent key).
NULL == "~null~"

(***************************************************************************)
(* Dates.  A date parameter is a 'YYYY-MM-DD' string; new Date(s) is the   *)
(* day it denotes.                                                         *)
(***************************************************************************)
DateStrings == <<"2024-01-01", "2024-01-02", "2024-01-03", "2024-01-04", "2024-01-05", "2024-01-06", "2024-01-07", "2024-01-08", "2024-01-09", "2024-01-10", "2024-01-11", "2024-01-12", "2024-01-13", "2024-01-14", "2024-01-15", "2024-01-16", "2024-01-17", "2024-01-18", "2024-01-19", "2024-01-20", "2024-01-21", "2024-01-22", "2024-01-23", "2024-01-24", "2024-01-25", "2024-01-26", "2024-01-27", "2024-01-28", "2024-01-29", "2024-01-30", "2024-01-31">>

DateStr(d) == DateStrings[d]

IsDateStr(s) == \E d \in 1..Len(DateStrings) : DateStrings[d] = s

\* new Date(s).getTime(), in days
ParseDate(s) == CHOOSE d \in 1..Len(DateStrings) : DateStrings[d] = s

\* first and last day of the current month, as toISOString().split('T')[0]
CurrentMonthFirst == DateStr(1)
CurrentMonthLast == DateStr(31)

(***************************************************************************)
(* Numbers in storage: n.toString() and parseInt(s).                       *)
(***************************************************************************)
TimePoints ==
  {k * TickMs : k \in 0..MaxTicks} \cup {k * TtlTickMs : k \in 0..MaxTtlTicks}

StoredNumbers ==
  {0} \cup TimePoints
      \cup {n + TRANSACTION_CACHE_DURATION : n \in TimePoints}
      \cup {n + CACHE_DURATION : n \in TimePoints}

NumberStrings == [n \in StoredNumbers |-> ToString(n)]

toString(n) == NumberStrings[n]

\* parseInt(s) of a string the program wrote with toString
parseInt(s) == CHOOSE n \in StoredNumbers : NumberStrings[n] = s

(***************************************************************************)
(* Response bodies and JSON.parse.                                         *)
(***************************************************************************)
BodyA == "{\"data\":[]}"
BodyB == "{\"data\":[{\"model\":\"a/b\",\"usage\":1}]}"
BodyScalar == "42"
BodyHtml == "<html>"

\* JSON.parse(text): "throws" for text that is no JSON, else the typeof of the value
JSONParse(text) ==
  CASE text \in {BodyA, BodyB} -> "object"
    [] text = BodyScalar -> "number"
    [] OTHER -> "throws"

(***************************************************************************)
(* localStorage                                                            *)
(***************************************************************************)
getItem(s, k) == IF k \in DOMAIN s THEN s[k] ELSE NULL

setItem(s, k, v) == [x \in (DOMAIN s) \cup {k} |-> IF x = k THEN v ELSE s[x]]

removeItem(s, k) == [x \in (DOMAIN s) \ {k} |-> s[x]]

startsWith(key, prefix) ==
  /\ Len(key) >= Len(prefix)
  /\ SubSeq(key, 1, Len(prefix)) = prefix

\* key.split('_').pop()
LastSegment(key) == key[Len(key)]

\* a value that is truthy in `if (value)`: neither null nor the empty string
Truthy(v) == v /= NULL /\ v /= ""

(***************************************************************************)
(* Keys of the range-keyed cache.                                          *)
(***************************************************************************)
\* `${fromDate}_to_${toDate}`, the current month when a boundary is missing
getDateRangeKey(fromDate, toDate) ==
  IF ~Truthy(fromDate) \/ ~Truthy(toDate)
    THEN <<CurrentMonthFirst, "to", CurrentMonthLast>>
    ELSE <<fromDate, "to", toDate>>

\* a key built from the window parameter instead of the date range
getTransactionCacheKeyByWindow(fromDate, toDate) ==
  TRANSACTION_CACHE_PREFIX \o <<CACHE_VERSION, "1mo">>

getTransactionCacheKey(fromDate, toDate) ==
  TRANSACTION_CACHE_PREFIX \o <<CACHE_VERSION>> \o getDateRangeKey(fromDate, toDate)

\* `${TRANSACTION_CACHE_EXPIRY_PREFIX}${CACHE_VERSION}_${cacheKey.split('_').pop()}`
expiryKeyOf(cacheKey) ==
  TRANSACTION_CACHE_EXPIRY_PREFIX \o <<CACHE_VERSION, LastSegment(cacheKey)>>

\* the keys of the payload records: startsWith(TRANSACTION_CACHE_PREFIX)
CachePrefixed(s) == {k \in DOMAIN s : startsWith(k, TRANSACTION_CACHE_PREFIX)}

clearTransactionCache(s, cacheKey) ==
  removeItem(removeItem(s, cacheKey), expiryKeyOf(cacheKey))

(***************************************************************************)
(* Reads of the range-keyed cache.  A read returns the store it leaves     *)
(* behind, the value it found (NULL for a miss) and the key it came from.  *)
(***************************************************************************)
NoKey == <<>>

getCachedDataByKey(s, cacheKey, time) ==
  LET expiry == getItem(s, expiryKeyOf(cacheKey))
      cachedData == getItem(s, cacheKey)
  IN  IF ~Truthy(expiry) \/ time > parseInt(expiry)
        THEN [store |-> clearTransactionCache(s, cacheKey), value |-> NULL, key |-> NoKey]
      ELSE IF Truthy(cachedData)
        THEN IF JSONParse(cachedData) /= "throws"
               THEN [store |-> s, value |-> cachedData, key |-> cacheKey]
               ELSE [store |-> clearTransactionCache(s, cacheKey), value |-> NULL,
                     key |-> NoKey]
      ELSE [store |-> s, value |-> NULL, key |-> NoKey]

\* a requested Date that is null (days are 1, 2, ...)
NoDate == 0

\* a cover test that leaves out the ranges that start on the same day
doesCacheCoverRangeStrict(cacheFrom, cacheTo, requestedFrom, requestedTo) ==
  IF requestedFrom = NoDate /\ requestedTo = NoDate THEN TRUE
  ELSE IF requestedFrom /= NoDate /\ requestedTo = NoDate
    THEN requestedFrom >= cacheFrom /\ requestedFrom <= cacheTo
  ELSE IF requestedFrom = NoDate /\ requestedTo /= NoDate
    THEN requestedTo >= cacheFrom /\ requestedTo <= cacheTo
  ELSE requestedFrom > cacheFrom /\ requestedTo <= cacheTo

\* a cover test that is content with a common day when both dates are given
doesCacheCoverRangeOverlapping(cacheFrom, cacheTo, requestedFrom, requestedTo) ==
  IF requestedFrom = NoDate /\ requestedTo = NoDate THEN TRUE
  ELSE IF requestedFrom /= NoDate /\ requestedTo = NoDate
    THEN requestedFrom >= cacheFrom /\ requestedFrom <= cacheTo
  ELSE IF requestedFrom = NoDate /\ requestedTo /= NoDate
    THEN requestedTo >= cacheFrom /\ requestedTo <= cacheTo
  ELSE requestedFrom <= cacheTo /\ requestedTo >= cacheFrom

\* the arguments are days (Date values), NoDate for a missing requested date
doesCacheCoverRange(cacheFrom, cacheTo, requestedFrom, requestedTo) ==
  IF requestedFrom = NoDate /\ requestedTo = NoDate THEN TRUE
  ELSE IF requestedFrom /= NoDate /\ requestedTo = NoDate
    THEN requestedFrom >= cacheFrom /\ requestedFrom <= cacheTo
  ELSE IF requestedFrom = NoDate /\ requestedTo /= NoDate
    THEN requestedTo >= cacheFrom /\ requestedTo <= cacheTo
  ELSE requestedFrom >= cacheFrom /\ requestedTo <= cacheTo

\* key.match(/_(\d{4}-\d{2}-\d{2})_to_(\d{4}-\d{2}-\d{2})$/)
MatchesDateRange(key) ==
  /\ Len(key) >= 4
  /\ IsDateStr(key[Len(key) - 2])
  /\ key[Len(key) - 1] = "to"
  /\ IsDateStr(key[Len(key)])

\* fromDate ? new Date(fromDate) : null
DateOrNull(d) == IF Truthy(d) THEN ParseDate(d) ELSE NoDate

\* The keys at which the scan of findOverlappingCachedData can stop.  The scan
\* follows localStorage.key(i), whose order is user-agent defined, and returns
\* the first key of this set it meets.
OverlappingKeys(s, fromDate, toDate) ==
  {k \in CachePrefixed(s) :
     /\ MatchesDateRange(k)
     /\ doesCacheCoverRange(ParseDate(k[Len(k) - 2]), ParseDate(k[Len(k)]),
                            DateOrNull(fromDate), DateOrNull(toDate))
     /\ Truthy(s[k])}

\* every result the scan can produce
findOverlappingCachedData(s, fromDate, toDate) ==
  IF OverlappingKeys(s, fromDate, toDate) = {}
    THEN {[store |-> s, value |-> NULL, key |-> NoKey]}
    ELSE {[store |-> s, value |-> s[k], key |-> k] :
            k \in OverlappingKeys(s, fromDate, toDate)}

\* every result of getTransactionCachedData
getTransactionCachedData(s, fromDate, toDate, time) ==
  LET exactData == getCachedDataByKey(s, getTransactionCacheKey(fromDate, toDate), time)
  IN  IF Truthy(exactData.value)
        THEN {exactData}
        ELSE findOverlappingCachedData(exactData.store, fromDate, toDate)

(***************************************************************************)
(* Writes of the range-keyed cache.  localStorage.setItem may throw a      *)
(* QuotaExceededError at any call; which call throws is an input of the    *)
(* write: "none", or the name of the first setItem that throws.            *)
(***************************************************************************)
RECURSIVE ClearEach(_, _)
\* keys.forEach(key => this.clearTransactionCache(key))
ClearEach(s, keys) ==
  IF keys = {} THEN s
  ELSE LET k == CHOOSE x \in keys : TRUE
       IN  ClearEach(clearTransactionCache(s, k), keys \ {k})

\* parseInt(localStorage.getItem(expiryKey) || '0')
EntryTimestamp(s, key) ==
  LET e == getItem(s, expiryKeyOf(key))
  IN  parseInt(IF Truthy(e) THEN e ELSE "0")

\* the keys enforceCacheLimit counts
LimitedKeys(s) ==
  {k \in CachePrefixed(s) : \E i \in 1..Len(k) : k[i] = CACHE_VERSION}

\* Every store enforceCacheLimit can leave.  The sort is stable over
\* Object.keys(localStorage), whose order is user-agent defined, so that among
\* entries of equal timestamp any may come first.
enforceCacheLimit(s) ==
  LET cacheKeys == LimitedKeys(s)
      n == Cardinality(cacheKeys) - MAX_CACHE_ENTRIES + 1
  IN  IF Cardinality(cacheKeys) >= MAX_CACHE_ENTRIES
        THEN {ClearEach(s, toRemove) :
                toRemove \in {R \in SUBSET cacheKeys :
                   /\ Cardinality(R) = n
                   /\ \A r \in R : \A k \in cacheKeys \ R :
                        EntryTimestamp(s, r) <= EntryTimestamp(s, k)}}
        ELSE {s}

\* key.replace(TRANSACTION_CACHE_EXPIRY_PREFIX, TRANSACTION_CACHE_PREFIX)
ReplaceExpiryPrefix(key) ==
  TRANSACTION_CACHE_PREFIX
    \o SubSeq(key, Len(TRANSACTION_CACHE_EXPIRY_PREFIX) + 1, Len(key))

\* the expiry records whose time has passed
ExpiredExpiryKeys(s, time) ==
  {k \in DOMAIN s :
     /\ startsWith(k, TRANSACTION_CACHE_EXPIRY_PREFIX)
     /\ Truthy(s[k])
     /\ time > parseInt(s[k])}

clearExpiredCaches(s, time) ==
  ClearEach(s, {ReplaceExpiryPrefix(k) : k \in ExpiredExpiryKeys(s, time)})

SetQuota == {"none", "probe", "payload", "expiry"}
RetryQuota == {"none", "payload", "expiry"}

\* a write that keeps the payload already stored under the key
WriteEntryIfAbsent(s, cacheKey, data, time, q) ==
  LET expiry == toString(time + TRANSACTION_CACHE_DURATION)
      withData == IF cacheKey \in DOMAIN s THEN s ELSE setItem(s, cacheKey, data)
      withBoth == setItem(withData, expiryKeyOf(cacheKey), expiry)
  IN  IF q = "payload" THEN {[store |-> s, wrote |-> {}]}
      ELSE IF q = "expiry"
        THEN {[store |-> withData, wrote |-> {<<cacheKey, data>>}]}
      ELSE {[store |-> s2,
             wrote |-> {<<cacheKey, data>>, <<expiryKeyOf(cacheKey), expiry>>}] :
              s2 \in enforceCacheLimit(withBoth)}

\* the two setItem calls of one attempt, then enforceCacheLimit: every result
WriteEntry(s, cacheKey, data, time, q) ==
  LET expiry == toString(time + TRANSACTION_CACHE_DURATION)
      withData == setItem(s, cacheKey, data)
      withBoth == setItem(withData, expiryKeyOf(cacheKey), expiry)
  IN  IF q = "payload" THEN {[store |-> s, wrote |-> {}]}
      ELSE IF q = "expiry"
        THEN {[store |-> withData, wrote |-> {<<cacheKey, data>>}]}
      ELSE {[store |-> s2,
             wrote |-> {<<cacheKey, data>>, <<expiryKeyOf(cacheKey), expiry>>}] :
              s2 \in enforceCacheLimit(withBoth)}

\* Every result of setTransactionCachedData: the store, the records written,
\* the number of clearExpiredCaches passes and the number of retries.
setTransactionCachedData(s, fromDate, toDate, data, time, q, rq) ==
  LET cacheKey == getTransactionCacheKey(fromDate, toDate)
  IN  IF q = "probe"
        THEN {[store |-> w.store, wrote |-> w.wrote, sweeps |-> 1, retries |-> 1] :
                w \in WriteEntry(clearExpiredCaches(s, time), cacheKey, data, time, rq)}
        ELSE {[store |-> w.store, wrote |-> w.wrote, sweeps |-> 0, retries |-> 0] :
                w \in WriteEntry(s, cacheKey, data, time, q)}

(***************************************************************************)
(* The single-slot dev cache.                                              *)
(***************************************************************************)
clearCache(s) == removeItem(removeItem(s, CACHE_KEY), CACHE_EXPIRY_KEY)

\* a dev-cache read that does not look at the expiry time
getCachedDataNoExpiry(s, time) ==
  LET expiry == getItem(s, CACHE_EXPIRY_KEY)
      cachedData == getItem(s, CACHE_KEY)
  IN  IF ~Truthy(expiry)
        THEN [store |-> clearCache(s), value |-> NULL]
      ELSE IF Truthy(cachedData)
        THEN IF JSONParse(cachedData) /= "throws"
               THEN [store |-> s, value |-> cachedData]
               ELSE [store |-> clearCache(s), value |-> NULL]
      ELSE [store |-> s, value |-> cachedData]

getCachedData(s, time) ==
  LET expiry == getItem(s, CACHE_EXPIRY_KEY)
      cachedData == getItem(s, CACHE_KEY)
  IN  IF ~Truthy(expiry) \/ time > parseInt(expiry)
        THEN [store |-> clearCache(s), value |-> NULL]
      ELSE IF Truthy(cachedData)
        THEN IF JSONParse(cachedData) /= "throws"
               THEN [store |-> s, value |-> cachedData]
               ELSE [store |-> clearCache(s), value |-> NULL]
      ELSE [store |-> s, value |-> cachedData]

\* pq: whether the setItem of the last-cleanup timestamp throws
performPeriodicCleanup(s, time, pq) ==
  LET lastCleanup == getItem(s, lastCleanupKey)
  IN  IF ~Truthy(lastCleanup) \/ time - parseInt(lastCleanup) > CACHE_CLEANUP_INTERVAL
        THEN [store |-> IF pq THEN clearExpiredCaches(s, time)
                        ELSE setItem(clearExpiredCaches(s, time), lastCleanupKey,
                                     toString(time)),
              sweeps |-> 1]
        ELSE [store |-> s, sweeps |-> 0]

DevQuota == {"none", "probe", "data", "expiry"}
DevRetryQuota == {"none", "data", "expiry"}

\* the two setItem calls of one attempt of setCachedData
WriteDev(s, data, time, q) ==
  LET withData == setItem(s, CACHE_KEY, data)
  IN  IF q \in {"probe", "data"} THEN s
      ELSE IF q = "expiry" THEN withData
      ELSE setItem(withData, CACHE_EXPIRY_KEY, toString(time + CACHE_DURATION))

setCachedData(s, data, time, dq, drq, pq) ==
  IF dq = "none"
    THEN performPeriodicCleanup(WriteDev(s, data, time, "none"), time, pq)
    ELSE [store |-> WriteDev(clearCache(WriteDev(s, data, time, dq)), data, time, drq),
          sweeps |-> 0]

(***************************************************************************)
(* fetchActivityData.  A call runs up to `await fetch(...)` in one step    *)
(* (FetchCall) and, when it issued a request, resumes in a second step     *)
(* when the response arrives (RespondOk, RespondHttpError) or the request  *)
(* fails (NetworkFail).                                                    *)
(***************************************************************************)
Slots == 1..MaxInflight

Idle == [busy |-> FALSE, from |-> NULL, to |-> NULL, requests |-> 0]

NoObs ==
  [op |-> "none", from |-> NULL, to |-> NULL, prevSet |-> NULL,
   cacheRead |-> NULL, hitKey |-> NoKey, hitExpiry |-> NULL,
   outcome |-> "none", value |-> NULL, requests |-> 0, status |-> 0,
   error |-> "", quota |-> "none", wrote |-> {}, sweeps |-> 0, retries |-> 0]

\* The page before the content script has done anything.
\*   tz, startHour  the browser's time zone (hours east of UTC) and the UTC
\*                  time at the start, in hours since 2024-01-01T00:00Z
\*   url            the from and to query parameters of window.location
\*   last           lastDateParams of the URL monitor
\*   buttons        which buttons createAnalyzeButton has added
\*   analyzeSlot    the call the disabled analyze button waits for, 0 if enabled
\*   trigger        what started the last pipeline run
\*   resolved       the range of that run before post-processing
\*   range          the range after the post-processing passes applied so far
\*   passes         the number of post-processing passes applied to range
\*   overlapped     the runs in flight during which another run for the same
\*                  range has stored its response, each with that response
\*   raced          when the last step completed such a run: the response
\*                  stored first and the response of this run
NoRace == [first |-> NULL, last |-> NULL]

\* no response has been given to the data processor
NoAgg == [phase |-> "none"]

\* the Logger module has not been loaded
NoLog == [phase |-> "none"]

NoPage ==
  [tz |-> 0, startHour |-> 0, url |-> <<NULL, NULL>>, last |-> <<NULL, NULL>>,
   buttons |-> "none", analyzeSlot |-> 0, trigger |-> "none",
   resolved |-> <<NULL, NULL>>, range |-> <<NULL, NULL>>, passes |-> 0,
   overlapped |-> {}, raced |-> NoRace]

Init ==
  /\ store = <<>>
  /\ written = <<>>
  /\ now = 0
  /\ DEV_MODE = FALSE
  /\ inflight = [i \in Slots |-> Idle]
  /\ calls = 0
  /\ obs = NoObs
  /\ page = NoPage
  /\ agg = NoAgg
  /\ log = NoLog

\* a fetch that returns whatever payload the caches give it
FetchFromCacheUnvalidated(s, fromParam, toParam, time, devMode) ==
  {LET dev == getCachedData(r.store, time)
   IN  IF Truthy(r.value)
         THEN [done |-> TRUE, outcome |-> "cached", value |-> r.value,
               store |-> r.store, cacheRead |-> r.value, hitKey |-> r.key]
       ELSE IF devMode /\ Truthy(dev.value)
         THEN [done |-> TRUE, outcome |-> "dev", value |-> dev.value,
               store |-> dev.store, cacheRead |-> r.value, hitKey |-> r.key]
       ELSE [done |-> FALSE, outcome |-> "pending", value |-> NULL,
             store |-> IF devMode THEN dev.store ELSE r.store,
             cacheRead |-> r.value, hitKey |-> r.key] :
   r \in getTransactionCachedData(s, fromParam, toParam, time)}

\* The synchronous part of fetchActivityData: every way it can end.  `done`
\* tells whether the call returned a cached payload; otherwise it goes on to
\* the network.
FetchFromCache(s, fromParam, toParam, time, devMode) ==
  {LET cachedData == r.value
       valid == Truthy(cachedData) /\ JSONParse(cachedData) = "object"
       afterCheck ==
         IF Truthy(cachedData) /\ ~valid
           THEN clearTransactionCache(r.store,
                                      getTransactionCacheKey(fromParam, toParam))
           ELSE r.store
       dev == getCachedData(afterCheck, time)
       devValid == Truthy(dev.value) /\ JSONParse(dev.value) /= "throws"
   IN  IF valid
         THEN [done |-> TRUE, outcome |-> "cached", value |-> cachedData,
               store |-> r.store, cacheRead |-> r.value, hitKey |-> r.key]
       ELSE IF devMode /\ devValid
         THEN [done |-> TRUE, outcome |-> "dev", value |-> dev.value,
               store |-> dev.store, cacheRead |-> r.value, hitKey |-> r.key]
       ELSE [done |-> FALSE, outcome |-> "pending", value |-> NULL,
             store |-> IF ~devMode THEN afterCheck
                       ELSE IF Truthy(dev.value) THEN clearCache(dev.store)
                       ELSE dev.store,
             cacheRead |-> r.value, hitKey |-> r.key] :
   r \in getTransactionCachedData(s, fromParam, toParam, time)}

\* fetchActivityData called in the same handler that has just changed
\* localStorage from store to s
FetchCallFrom(s, i, fromParam, toParam, limit) ==
  /\ ~inflight[i].busy
  /\ calls < limit
  /\ \E c \in FetchFromCache(s, fromParam, toParam, now, DEV_MODE) :
       /\ store' = c.store
       /\ inflight' = IF c.done THEN inflight
                      ELSE [inflight EXCEPT ![i] =
                              [busy |-> TRUE, from |-> fromParam, to |-> toParam,
                               requests |-> 1]]
       /\ obs' = [NoObs EXCEPT
                    !.op = "call", !.from = fromParam, !.to = toParam,
                    !.prevSet = IF /\ obs.op = "respond" /\ obs.outcome = "ok"
                                   /\ obs.quota = "none"
                                   /\ obs.from = fromParam /\ obs.to = toParam
                                  THEN obs.value ELSE NULL,
                    !.cacheRead = c.cacheRead, !.hitKey = c.hitKey,
                    !.hitExpiry = IF c.hitKey = NoKey THEN NULL
                                  ELSE getItem(s, expiryKeyOf(c.hitKey)),
                    !.outcome = c.outcome, !.value = c.value,
                    !.requests = IF c.done THEN 0 ELSE 1]
  /\ calls' = calls + 1
  /\ UNCHANGED <<now, DEV_MODE>>

FetchCall(i, fromParam, toParam, limit) ==
  FetchCallFrom(store, i, fromParam, toParam, limit)

\* only the statuses fetchActivityData names count as failures
ResponseOkUnlessListed(status) == status \notin {401, 403, 404, 429} /\ status < 500

\* response.ok
ResponseOk(status) == status >= 200 /\ status <= 299

\* the message of the Error thrown for a response that is not ok
ErrorMessage(status) ==
  IF status = 401 THEN "Authentication required. Please log in to OpenRouter."
  ELSE IF status = 403
    THEN "Access forbidden. You might not have permission to view this data."
  ELSE IF status = 404
    THEN "API endpoint not found. The service might be temporarily unavailable."
  ELSE IF status = 429
    THEN "Too many requests. Please wait a moment before trying again."
  ELSE IF status >= 500 THEN "Server error. Please try again later."
  ELSE "HTTP error"

\* The part of fetchActivityData after the response text is read: the range
\* cache is written, then the dev cache when DEV_MODE is set.
StoreResponse(s, fromParam, toParam, responseText, time, devMode, q, rq, dq, drq, pq) ==
  {LET d == setCachedData(w.store, responseText, time, dq, drq, pq)
   IN  IF devMode
         THEN [store |-> d.store, wrote |-> w.wrote, sweeps |-> w.sweeps + d.sweeps,
               retries |-> w.retries]
         ELSE [store |-> w.store, wrote |-> w.wrote, sweeps |-> w.sweeps,
               retries |-> w.retries] :
   w \in setTransactionCachedData(s, fromParam, toParam, responseText, time, q, rq)}

RespondOk(i, status, responseText, q, rq, dq, drq, pq) ==
  /\ inflight[i].busy
  /\ ResponseOk(status)
  /\ \E r \in StoreResponse(store, inflight[i].from, inflight[i].to, responseText,
                            now, DEV_MODE, q, rq, dq, drq, pq) :
       /\ store' = r.store
       /\ obs' = [NoObs EXCEPT
                    !.op = "respond", !.from = inflight[i].from,
                    !.to = inflight[i].to, !.outcome = "ok",
                    !.value = responseText, !.requests = inflight[i].requests,
                    !.status = status,
                    !.quota = q, !.wrote = r.wrote, !.sweeps = r.sweeps,
                    !.retries = r.retries]
  /\ inflight' = [inflight EXCEPT ![i] = Idle]
  /\ UNCHANGED <<now, DEV_MODE, calls>>

\* a failed request is issued once more
RespondHttpErrorRetry(i, status) ==
  /\ inflight[i].busy
  /\ ~ResponseOk(status)
  /\ obs' = [NoObs EXCEPT
               !.op = "call", !.from = inflight[i].from, !.to = inflight[i].to,
               !.outcome = "pending", !.requests = inflight[i].requests + 1,
               !.status = status]
  /\ inflight' = [inflight EXCEPT ![i].requests = @ + 1]
  /\ UNCHANGED <<store, now, DEV_MODE, calls>>

RespondHttpError(i, status) ==
  /\ inflight[i].busy
  /\ ~ResponseOk(status)
  /\ obs' = [NoObs EXCEPT
               !.op = "respond", !.from = inflight[i].from,
               !.to = inflight[i].to, !.outcome = "error",
               !.requests = inflight[i].requests, !.status = status,
               !.error = ErrorMessage(status)]
  /\ inflight' = [inflight EXCEPT ![i] = Idle]
  /\ UNCHANGED <<store, now, DEV_MODE, calls>>

\* fetch() rejects: no response at all
NetworkFail(i) ==
  /\ inflight[i].busy
  /\ obs' = [NoObs EXCEPT
               !.op = "respond", !.from = inflight[i].from,
               !.to = inflight[i].to, !.outcome = "error",
               !.requests = inflight[i].requests, !.error = "Failed to fetch"]
  /\ inflight' = [inflight EXCEPT ![i] = Idle]
  /\ UNCHANGED <<store, now, DEV_MODE, calls>>

\* time passes
Tick ==
  /\ now < MaxTicks * TickMs
  /\ now' = now + TickMs
  /\ obs' = NoObs
  /\ UNCHANGED <<store, DEV_MODE, inflight, calls>>

\* the chrome.storage listeners of debug.ts set DEV_MODE
SetDebugMode(b) ==
  /\ DEV_MODE /= b
  /\ DEV_MODE' = b
  /\ obs' = NoObs
  /\ UNCHANGED <<store, now, inflight, calls>>

(***************************************************************************)
(* Spec: every request over the days 1..MaxDay and null, every response.   *)
(***************************************************************************)
ReqParams == {NULL} \cup {DateStr(d) : d \in 1..MaxDay}

ResponseBodies == {BodyA, BodyB, BodyScalar, BodyHtml}

HttpStatuses == {200, 400, 401, 403, 404, 429, 503}

\* the combinations of throwing setItem calls that differ in effect
QuotaCases(devMode) ==
  {c \in [q : SetQuota, rq : RetryQuota, dq : DevQuota, drq : DevRetryQuota,
          pq : BOOLEAN] :
     /\ c.q /= "probe" => c.rq = "none"
     /\ ~devMode => c.dq = "none"
     /\ c.dq = "none" => c.drq = "none"
     /\ c.dq /= "none" => ~c.pq}

\* production mode: DEV_MODE keeps the value it is loaded with
Next ==
  \/ /\ \E i \in Slots, f \in ReqParams, t \in ReqParams : FetchCall(i, f, t, MaxCalls)
     /\ UNCHANGED <<page, agg, log, written>>
  \/ /\ \E i \in Slots, status \in HttpStatuses, body \in ResponseBodies,
           c \in QuotaCases(FALSE) :
          RespondOk(i, status, body, c.q, c.rq, c.dq, c.drq, c.pq)
     /\ UNCHANGED <<page, agg, log, written>>
  \/ /\ \E i \in Slots, status \in HttpStatuses : RespondHttpError(i, status)
     /\ UNCHANGED <<page, agg, log, written>>
  \/ /\ \E i \in Slots : NetworkFail(i)
     /\ UNCHANGED <<page, agg, log, written>>
  \/ /\ Tick
     /\ UNCHANGED <<page, agg, log, written>>

Spec == Init /\ [][Next]_vars

(***************************************************************************)
(* SpecDev: the same with the debug flag switched on and off.              *)
(***************************************************************************)
DevParams == {NULL} \cup {DateStr(d) : d \in 1..MaxDevDay}

NextDev ==
  \/ /\ \E i \in Slots, f \in DevParams, t \in DevParams : FetchCall(i, f, t, MaxDevCalls)
     /\ UNCHANGED <<page, agg, log, written>>
  \/ /\ \E i \in Slots, status \in HttpStatuses, body \in ResponseBodies,
           c \in QuotaCases(DEV_MODE) :
          RespondOk(i, status, body, c.q, c.rq, c.dq, c.drq, c.pq)
     /\ UNCHANGED <<page, agg, log, written>>
  \/ /\ \E i \in Slots, status \in HttpStatuses : RespondHttpError(i, status)
     /\ UNCHANGED <<page, agg, log, written>>
  \/ /\ \E i \in Slots : NetworkFail(i)
     /\ UNCHANGED <<page, agg, log, written>>
  \/ /\ Tick
     /\ UNCHANGED <<page, agg, log, written>>
  \/ /\ \E b \in BOOLEAN : SetDebugMode(b)
     /\ UNCHANGED <<page, agg, log, written>>

SpecDev == Init /\ [][NextDev]_vars

(***************************************************************************)
(* SpecTtl: SpecDev with the clock advancing in steps of twenty minutes,   *)
(* past the 30 minutes of the dev cache.                                   *)
(***************************************************************************)
TtlTick ==
  /\ now < MaxTtlTicks * TtlTickMs
  /\ now' = now + TtlTickMs
  /\ obs' = NoObs
  /\ UNCHANGED <<store, DEV_MODE, inflight, calls>>

NextTtl ==
  \/ /\ \E i \in Slots, f \in DevParams, t \in DevParams : FetchCall(i, f, t, MaxDevCalls)
     /\ UNCHANGED <<page, agg, log, written>>
  \/ /\ \E i \in Slots, status \in HttpStatuses, body \in ResponseBodies,
           c \in QuotaCases(DEV_MODE) :
          RespondOk(i, status, body, c.q, c.rq, c.dq, c.drq, c.pq)
     /\ UNCHANGED <<page, agg, log, written>>
  \/ /\ \E i \in Slots, status \in HttpStatuses : RespondHttpError(i, status)
     /\ UNCHANGED <<page, agg, log, written>>
  \/ /\ \E i \in Slots : NetworkFail(i)
     /\ UNCHANGED <<page, agg, log, written>>
  \/ /\ TtlTick
     /\ UNCHANGED <<page, agg, log, written>>
  \/ /\ \E b \in BOOLEAN : SetDebugMode(b)
     /\ UNCHANGED <<page, agg, log, written>>

SpecTtl == Init /\ [][NextTtl]_vars

(***************************************************************************)
(* SpecEvict: enough entries to reach MAX_CACHE_ENTRIES.  The user keeps   *)
(* the end of the range on day MaxEvictDay and widens the range one day at *)
(* a time: a request repeats the widest range stored or starts a day       *)
(* earlier.  Every response is the same well-formed body.                  *)
(***************************************************************************)
StoredFromDays(s) ==
  {ParseDate(k[Len(k) - 2]) : k \in {x \in CachePrefixed(s) : MatchesDateRange(x)}}

WidestFrom(s) ==
  IF StoredFromDays(s) = {} THEN MaxEvictDay + 1
  ELSE CHOOSE d \in StoredFromDays(s) : \A e \in StoredFromDays(s) : d <= e

WideningDays(s) == {d \in 1..MaxEvictDay : WidestFrom(s) - 1 <= d /\ d <= WidestFrom(s)}

NextEvict ==
  \/ /\ \E d \in WideningDays(store) :
          FetchCall(1, DateStr(d), DateStr(MaxEvictDay), MaxEvictCalls)
     /\ UNCHANGED <<page, agg, log, written>>
  \/ /\ \E q \in SetQuota, rq \in RetryQuota :
          /\ q /= "probe" => rq = "none"
          /\ RespondOk(1, 200, BodyA, q, rq, "none", "none", FALSE)
     /\ UNCHANGED <<page, agg, log, written>>

SpecEvict == Init /\ [][NextEvict]_vars

(***************************************************************************)
(* SpecWritten: Spec with the history of the cache writes.  written maps   *)
(* the key of each payload in the store to the call of                     *)
(* setTransactionCachedData that stored it: its arguments and Date.now().  *)
(***************************************************************************)
NoSet == [time |-> 0 - 1, from |-> NULL, to |-> NULL, data |-> NULL]

\* written once a read has left the store s: removed payloads are forgotten
Kept(w, s) == [k \in DOMAIN w \cap DOMAIN s |-> w[k]]

\* written once setTransactionCachedData(fromDate, toDate, ...) has set the
\* records wrote at the time time and left the store s
Stamped(w, s, wrote, fromDate, toDate, time) ==
  [k \in CachePrefixed(s) |->
     IF \E p \in wrote : p[1] = k
       THEN [time |-> time, from |-> fromDate, to |-> toDate,
             data |-> (CHOOSE p \in wrote : p[1] = k)[2]]
     ELSE IF k \in DOMAIN w THEN w[k]
     ELSE NoSet]

WrittenBodies == {BodyA, BodyB, BodyScalar}

WrittenStatuses == {200, 503}

NextWritten ==
  \/ /\ \E i \in Slots, f \in ReqParams, t \in ReqParams : FetchCall(i, f, t, MaxCalls)
     /\ written' = Kept(written, store')
     /\ UNCHANGED <<page, agg, log>>
  \/ /\ \E i \in Slots, status \in WrittenStatuses, body \in WrittenBodies,
           c \in QuotaCases(FALSE) :
          RespondOk(i, status, body, c.q, c.rq, c.dq, c.drq, c.pq)
     /\ written' = Stamped(written, store', obs'.wrote, obs'.from, obs'.to, now)
     /\ UNCHANGED <<page, agg, log>>
  \/ /\ \E i \in Slots, status \in WrittenStatuses : RespondHttpError(i, status)
     /\ UNCHANGED <<page, agg, log, written>>
  \/ /\ \E i \in Slots : NetworkFail(i)
     /\ UNCHANGED <<page, agg, log, written>>
  \/ /\ Tick
     /\ UNCHANGED <<page, agg, log, written>>

SpecWritten == Init /\ [][NextWritten]_vars

(***************************************************************************)
(* SpecOrder: SpecEvict with the history of the cache writes, the clock    *)
(* advancing, and one range that ends a day earlier.  No setItem throws.    *)
(***************************************************************************)
\* the days a range may end on: day MaxEvictDay, and the day before it for
\* the request made when two entries short of MAX_CACHE_ENTRIES are stored
OrderToDays(s) ==
  {MaxEvictDay} \cup
  {t \in {MaxEvictDay - 1} : Cardinality(CachePrefixed(s)) = MAX_CACHE_ENTRIES - 2}

NextOrder ==
  \/ /\ \E d \in WideningDays(store), t \in OrderToDays(store) :
          FetchCall(1, DateStr(d), DateStr(t), MaxEvictCalls)
     /\ written' = Kept(written, store')
     /\ UNCHANGED <<page, agg, log>>
  \/ /\ RespondOk(1, 200, BodyA, "none", "none", "none", "none", FALSE)
     /\ written' = Stamped(written, store', obs'.wrote, obs'.from, obs'.to, now)
     /\ UNCHANGED <<page, agg, log>>
  \/ /\ Tick
     /\ UNCHANGED <<page, agg, log, written>>

SpecOrder == Init /\ [][NextOrder]_vars

(***************************************************************************)
(* The content script: resolution and post-processing of the date range.  *)
(* The clock is kept in whole hours: new Date('YYYY-MM-DD') is midnight    *)
(* UTC of that day, `today.setHours(23, 59, 59, 999)` is the end of the    *)
(* local day, and toISOString() gives the UTC date.                        *)
(***************************************************************************)
MsPerHour == 60 * 60 * 1000

\* the UTC time, in hours since 2024-01-01T00:00Z
UtcHour(pg, time) == pg.startHour + time \div MsPerHour

\* the local calendar day and the UTC calendar day, as days of January 2024
LocalToday(h, tz) == (h + tz) \div 24 + 1
UtcToday(h) == h \div 24 + 1

\* today.setHours(23, 59, 59, 999): the UTC hour that holds the last
\* millisecond of the local day
EndOfToday(h, tz) == (LocalToday(h, tz) - 1) * 24 + 23 - tz

\* new Date(s).getTime() of a date-only string, in hours
DateTime(s) == (ParseDate(s) - 1) * 24

\* date.toISOString().split('T')[0]
ISODate(hour) == DateStr(hour \div 24 + 1)

\* a post-processing that moves a future `to` one day back
normalizeDatesStepBack(fromDate, toDate, h, tz) ==
  LET today == EndOfToday(h, tz)
      to1 == IF Truthy(toDate) /\ IsDateStr(toDate) /\ DateTime(toDate) > today
               THEN DateStr(ParseDate(toDate) - 1) ELSE toDate
      from1 == IF /\ Truthy(fromDate) /\ Truthy(to1)
                  /\ IsDateStr(fromDate) /\ IsDateStr(to1)
                  /\ DateTime(fromDate) > DateTime(to1)
                 THEN to1 ELSE fromDate
  IN  <<from1, to1>>

\* "Normalize dates": the block repeated in triggerAutoRefresh,
\* processAndDisplayResults and analyzeData
normalizeDates(fromDate, toDate, h, tz) ==
  LET today == EndOfToday(h, tz)
      to1 == IF Truthy(toDate) /\ IsDateStr(toDate) /\ DateTime(toDate) > today
               THEN ISODate(today) ELSE toDate
      from1 == IF /\ Truthy(fromDate) /\ Truthy(to1)
                  /\ IsDateStr(fromDate) /\ IsDateStr(to1)
                  /\ DateTime(fromDate) > DateTime(to1)
                 THEN to1 ELSE fromDate
  IN  <<from1, to1>>

(***************************************************************************)
(* SpecRange: the post-processing alone.  A behaviour starts with a        *)
(* resolved range, a time zone and a time of day, and applies the two      *)
(* passes of the auto-refresh path.                                        *)
(***************************************************************************)
RangeZones == {-5, 0, 2}

\* 15 January 2024 at 03:00, 12:00 and 22:00 UTC
RangeStartHours == {14 * 24 + 3, 14 * 24 + 12, 14 * 24 + 22}

RangeDates == {NULL} \cup {DateStr(d) : d \in 13..18}

InitRange ==
  /\ store = <<>>
  /\ written = <<>>
  /\ now = 0
  /\ DEV_MODE = FALSE
  /\ inflight = [i \in Slots |-> Idle]
  /\ calls = 0
  /\ obs = NoObs
  /\ agg = NoAgg
  /\ log = NoLog
  /\ \E z \in RangeZones, h \in RangeStartHours, f \in RangeDates, t \in RangeDates :
       page = [NoPage EXCEPT !.tz = z, !.startHour = h, !.trigger = "auto",
                             !.resolved = <<f, t>>, !.range = <<f, t>>]

\* the post-processing of triggerAutoRefresh, before the fetch
TriggerNormalize ==
  /\ page.passes = 0
  /\ page' = [page EXCEPT
                !.range = normalizeDates(page.range[1], page.range[2],
                                         UtcHour(page, now), page.tz),
                !.passes = 1]
  /\ UNCHANGED <<store, now, DEV_MODE, inflight, calls, obs>>

\* the post-processing of processAndDisplayResults, after the fetch
ResultsNormalize ==
  /\ page.passes = 1
  /\ page' = [page EXCEPT
                !.range = normalizeDates(page.range[1], page.range[2],
                                         UtcHour(page, now), page.tz),
                !.passes = 2]
  /\ UNCHANGED <<store, now, DEV_MODE, inflight, calls, obs>>

NextRange ==
  \/ TriggerNormalize /\ UNCHANGED <<agg, log, written>>
  \/ ResultsNormalize /\ UNCHANGED <<agg, log, written>>

SpecRange == InitRange /\ [][NextRange]_vars

(***************************************************************************)
(* SpecPipe: the pipeline runs of the content script.  A run is started by *)
(* the analyze button (analyzeCSV of contentScript.ts, analyzeData of the  *)
(* analyzer), by the refresh button of debug mode, or by the URL monitor   *)
(* of the analyzer; it resolves the range, calls fetchActivityData and,    *)
(* when a request was issued, resumes at the response.  The time zones are *)
(* UTC and UTC-5, where the first and the last day of the month, taken at  *)
(* local midnight, keep their date in toISOString().                       *)
(***************************************************************************)
PipeSlots == 1..MaxPipeRuns

PipeZones == {-5, 0}

\* 15 January 2024, 12:00 UTC
PipeStartHour == 14 * 24 + 12

\* the from and to query parameters the page can have
PipeUrls == {<<NULL, NULL>>, <<DateStr(17), DateStr(16)>>}

\* what the document offers: the values of the date inputs ('' when there is
\* none) and the dates found in the page text
DomCases ==
  {[inputs |-> <<"", "">>, text |-> <<>>],
   [inputs |-> <<DateStr(14), "">>, text |-> <<DateStr(13), DateStr(15)>>]}

extractDefaultDateRange(dom) ==
  LET fromDate == dom.inputs[1]
      toDate == dom.inputs[2]
      scan == (~Truthy(fromDate) \/ ~Truthy(toDate)) /\ Len(dom.text) >= 2
      from2 == IF scan /\ ~Truthy(fromDate) THEN dom.text[1] ELSE fromDate
      to2 == IF scan /\ ~Truthy(toDate) THEN dom.text[2] ELSE toDate
  IN  <<IF Truthy(from2) THEN from2 ELSE CurrentMonthFirst,
        IF Truthy(to2) THEN to2 ELSE CurrentMonthLast>>

\* "Extract current date range from UI/URL" of analyzeData and
\* triggerAutoRefresh
resolveDates(fromDate, toDate, dom) ==
  <<IF Truthy(fromDate) THEN fromDate ELSE extractDefaultDateRange(dom)[1],
    IF Truthy(toDate) THEN toDate ELSE extractDefaultDateRange(dom)[2]>>

InitPipe ==
  /\ store = <<>>
  /\ written = <<>>
  /\ now = 0
  /\ DEV_MODE \in BOOLEAN
  /\ inflight = [i \in PipeSlots |-> Idle]
  /\ calls = 0
  /\ obs = NoObs
  /\ agg = NoAgg
  /\ log = NoLog
  /\ \E z \in PipeZones :
       page = [NoPage EXCEPT !.tz = z, !.startHour = PipeStartHour]

\* the page without the record of the handler that ran last
Cleared(pg) ==
  [pg EXCEPT !.trigger = "none", !.resolved = <<NULL, NULL>>,
             !.range = <<NULL, NULL>>, !.passes = 0, !.raced = NoRace]

\* createAnalyzeButton: the refresh and delete buttons are added in debug mode
AddAnalyzeButton ==
  /\ page.buttons = "none"
  /\ page' = [Cleared(page) EXCEPT !.buttons = IF DEV_MODE THEN "dev" ELSE "analyze"]
  /\ obs' = NoObs
  /\ UNCHANGED <<store, now, DEV_MODE, inflight, calls>>

\* the user picks other dates or navigates: the query parameters change
UrlChange(u) ==
  /\ u /= page.url
  /\ page' = [Cleared(page) EXCEPT !.url = u]
  /\ obs' = NoObs
  /\ UNCHANGED <<store, now, DEV_MODE, inflight, calls>>

\* the page after a run for range r was started by trigger tr on slot i, r0
\* being the range before post-processing; `wait` tells whether the analyze
\* button stays disabled until the run ends
Started(pg, tr, r0, r, n, i, wait, pending) ==
  [pg EXCEPT !.trigger = tr, !.resolved = r0, !.range = r, !.passes = n,
             !.analyzeSlot = IF wait /\ pending THEN i ELSE pg.analyzeSlot,
             !.raced = NoRace]

\* a URL monitor that takes note of the new parameters but starts no run while
\* a request is in flight
CheckUrlChangeInterlocked(i, dom) ==
  /\ page.url /= page.last
  /\ IF \E j \in DOMAIN inflight : inflight[j].busy
       THEN /\ page' = [page EXCEPT !.last = page.url]
            /\ UNCHANGED <<store, now, DEV_MODE, inflight, calls, obs>>
       ELSE LET r0 == resolveDates(page.url[1], page.url[2], dom)
                r == normalizeDates(r0[1], r0[2], UtcHour(page, now), page.tz)
            IN  /\ FetchCallFrom(store, i, r[1], r[2], MaxPipeCalls)
                /\ page' = [Started(page, "auto", r0, r, 1, i, FALSE, inflight'[i].busy)
                              EXCEPT !.last = page.url]

\* checkUrlChange of setupUrlChangeMonitoring, with triggerAutoRefresh
CheckUrlChange(i, dom) ==
  /\ page.url /= page.last
  /\ LET r0 == resolveDates(page.url[1], page.url[2], dom)
         r == normalizeDates(r0[1], r0[2], UtcHour(page, now), page.tz)
     IN  /\ FetchCallFrom(store, i, r[1], r[2], MaxPipeCalls)
         /\ page' = [Started(page, "auto", r0, r, 1, i, FALSE, inflight'[i].busy)
                       EXCEPT !.last = page.url]

\* analyzeData of the analyzer, started from store s
analyzeData(s, i, dom, tr, wait) ==
  LET u == page.url
      r0 == resolveDates(u[1], u[2], dom)
      r == normalizeDates(r0[1], r0[2], UtcHour(page, now), page.tz)
  IN  /\ FetchCallFrom(s, i, r[1], r[2], MaxPipeCalls)
      /\ page' = Started(page, tr, r0, r, 1, i, wait, inflight'[i].busy)

\* analyzeCSV of contentScript.ts, started from store s
analyzeCSV(s, i, tr, wait) ==
  /\ FetchCallFrom(s, i, page.url[1], page.url[2], MaxPipeCalls)
  /\ page' = Started(page, tr, page.url, page.url, 0, i, wait, inflight'[i].busy)

\* a click on the analyze button, which is disabled until its run has ended
AnalyzeClick(i, dom, script) ==
  /\ page.buttons /= "none"
  /\ page.analyzeSlot = 0
  /\ IF script = "analyzer" THEN analyzeData(store, i, dom, "analyze", TRUE)
     ELSE analyzeCSV(store, i, "analyze", TRUE)

\* clearDevCache
clearDevCache(s, devMode) == IF devMode THEN clearCache(s) ELSE s

\* a click on the refresh button: handleForceRefresh clears the dev cache and
\* calls the analyze handler without waiting for it
RefreshClick(i, dom, script) ==
  /\ page.buttons = "dev"
  /\ IF script = "analyzer"
       THEN analyzeData(clearDevCache(store, DEV_MODE), i, dom, "refresh", FALSE)
       ELSE analyzeCSV(clearDevCache(store, DEV_MODE), i, "refresh", FALSE)

\* the page after the run on slot i has ended; `stored` is the response it
\* put into the cache, NULL if it stored none
Ended(pg, i, stored) ==
  LET peers == {j \in DOMAIN inflight :
                  /\ j /= i /\ inflight[j].busy /\ stored /= NULL
                  /\ inflight[j].from = inflight[i].from
                  /\ inflight[j].to = inflight[i].to}
      mine == {o \in pg.overlapped : o[1] = i}
  IN  [Cleared(pg) EXCEPT
         !.analyzeSlot = IF pg.analyzeSlot = i THEN 0 ELSE pg.analyzeSlot,
         !.overlapped = {o \in pg.overlapped : o[1] /= i /\ o[1] \notin peers}
                          \cup {<<j, stored>> : j \in peers},
         !.raced = IF mine /= {} /\ stored /= NULL
                     THEN [first |-> (CHOOSE o \in mine : TRUE)[2], last |-> stored]
                     ELSE NoRace]

PipeRespondOk(i, status, responseText, q, rq) ==
  /\ RespondOk(i, status, responseText, q, rq, "none", "none", FALSE)
  /\ page' = Ended(page, i, responseText)

PipeRespondHttpError(i, status) ==
  /\ RespondHttpError(i, status)
  /\ page' = Ended(page, i, NULL)

PipeNetworkFail(i) ==
  /\ NetworkFail(i)
  /\ page' = Ended(page, i, NULL)

PipeStatuses == {200, 503}

PipeBodies == {BodyA, BodyB}

Scripts == {"analyzer", "contentScript"}

\* a new run is given the first slot that is free
FirstFree(i) == \A j \in PipeSlots : j < i => inflight[j].busy

NextPipe ==
  \/ AddAnalyzeButton /\ UNCHANGED <<agg, log, written>>
  \/ \E u \in PipeUrls : UrlChange(u) /\ UNCHANGED <<agg, log, written>>
  \/ \E i \in PipeSlots, dom \in DomCases :
       FirstFree(i) /\ CheckUrlChange(i, dom) /\ UNCHANGED <<agg, log, written>>
  \/ \E i \in PipeSlots, dom \in DomCases, sc \in Scripts :
       FirstFree(i) /\ AnalyzeClick(i, dom, sc) /\ UNCHANGED <<agg, log, written>>
  \/ \E i \in PipeSlots, dom \in DomCases, sc \in Scripts :
       FirstFree(i) /\ RefreshClick(i, dom, sc) /\ UNCHANGED <<agg, log, written>>
  \/ \E i \in PipeSlots, status \in PipeStatuses, body \in PipeBodies,
        q \in {"none", "payload"} :
       PipeRespondOk(i, status, body, q, "none") /\ UNCHANGED <<agg, log, written>>
  \/ \E i \in PipeSlots, status \in PipeStatuses :
       PipeRespondHttpError(i, status) /\ UNCHANGED <<agg, log, written>>
  \/ \E i \in PipeSlots : PipeNetworkFail(i) /\ UNCHANGED <<agg, log, written>>

SpecPipe == InitPipe /\ [][NextPipe]_vars

(***************************************************************************)
(* The data processor (dataProcessor.ts).  A JavaScript value is a record  *)
(* of its type t with its number n or its string s; an object used as a    *)
(* map is the function from its own property names to their values, and    *)
(* the properties it inherits from Object.prototype are read through       *)
(* Inherited.  Numbers are whole: a cost is an amount in the smallest unit *)
(* the response distinguishes, so that sums are exact.                     *)
(***************************************************************************)
JsUndefined == [t |-> "undefined", n |-> 0, s |-> ""]
JsNull == [t |-> "null", n |-> 0, s |-> ""]
JsNaN == [t |-> "NaN", n |-> 0, s |-> ""]
JsNum(n) == [t |-> "number", n |-> n, s |-> ""]
JsStr(s) == [t |-> "string", n |-> 0, s |-> s]

\* an object or a function as a value; s is what String() makes of it
JsObj(s) == [t |-> "object", n |-> 0, s |-> s]

\* the truthiness that ||, ! and if test
JsTruthy(v) ==
  CASE v.t = "number" -> v.n /= 0
    [] v.t = "string" -> v.s /= ""
    [] v.t = "object" -> TRUE
    [] OTHER -> FALSE

\* String(v)
JsToString(v) ==
  CASE v.t = "number" -> ToString(v.n)
    [] v.t = "string" -> v.s
    [] v.t = "object" -> v.s
    [] v.t = "null" -> "null"
    [] v.t = "NaN" -> "NaN"
    [] OTHER -> "undefined"

\* a || b
JsOr(a, b) == IF JsTruthy(a) THEN a ELSE b

\* a + b: concatenation when an operand is a string or an object
JsAdd(a, b) ==
  IF a.t \in {"string", "object"} \/ b.t \in {"string", "object"}
    THEN JsStr(JsToString(a) \o JsToString(b))
  ELSE IF a.t = "number" /\ b.t = "number" THEN JsNum(a.n + b.n)
  ELSE IF a.t = "null" /\ b.t = "number" THEN b
  ELSE IF a.t = "number" /\ b.t = "null" THEN a
  ELSE JsNaN

CharAt(str, i) == SubSeq(str, i, i)

DigitChars == <<"0", "1", "2", "3", "4", "5", "6", "7", "8", "9">>

IsDigit(c) == \E d \in 1..10 : DigitChars[d] = c

DigitValue(c) == (CHOOSE d \in 1..10 : DigitChars[d] = c) - 1

\* the first position from i on that holds no blank
RECURSIVE SkipBlanks(_, _)
SkipBlanks(str, i) ==
  IF i <= Len(str) /\ CharAt(str, i) = " " THEN SkipBlanks(str, i + 1) ELSE i

\* the position after the digits that start at i
RECURSIVE DigitsEnd(_, _)
DigitsEnd(str, i) ==
  IF i <= Len(str) /\ IsDigit(CharAt(str, i)) THEN DigitsEnd(str, i + 1) ELSE i

\* the number written by the digits of str from position i to before k
RECURSIVE DigitsNumber(_, _, _)
DigitsNumber(str, i, k) ==
  IF k <= i THEN 0
  ELSE DigitsNumber(str, i, k - 1) * 10 + DigitValue(CharAt(str, k - 1))

\* parseInt(v): the whole number String(v) starts with, after blanks and a sign
JsParseInt(v) ==
  LET str == JsToString(v)
      i == SkipBlanks(str, 1)
      signed == i <= Len(str) /\ CharAt(str, i) \in {"-", "+"}
      j == IF signed THEN i + 1 ELSE i
      k == DigitsEnd(str, j)
  IN  IF k = j THEN JsNaN
      ELSE IF signed /\ CharAt(str, i) = "-" THEN JsNum(0 - DigitsNumber(str, j, k))
      ELSE JsNum(DigitsNumber(str, j, k))

\* parseFloat(v), for the whole amounts of the model
JsParseFloat(v) == JsParseInt(v)

\* the part of str after its last '/': str.split('/').pop()
RECURSIVE AfterLastSlash(_, _)
AfterLastSlash(str, i) ==
  IF i = 0 THEN str
  ELSE IF CharAt(str, i) = "/" THEN SubSeq(str, i + 1, Len(str))
  ELSE AfterLastSlash(str, i - 1)

\* the position of the last character of str that is no blank
RECURSIVE LastNonBlank(_, _)
LastNonBlank(str, i) ==
  IF i >= 1 /\ CharAt(str, i) = " " THEN LastNonBlank(str, i - 1) ELSE i

\* str.trim()
Trim(str) == SubSeq(str, SkipBlanks(str, 1), LastNonBlank(str, Len(str)))

\* the methods every object inherits from Object.prototype
PrototypeMethods ==
  {"constructor", "toString", "toLocaleString", "valueOf", "hasOwnProperty",
   "isPrototypeOf", "propertyIsEnumerable"}

\* the value an object inherits under name k
Inherited(k) ==
  IF k = "__proto__" THEN JsObj("[object Object]")
  ELSE IF k = "constructor" THEN JsObj("function Object() { [native code] }")
  ELSE IF k \in PrototypeMethods
    THEN JsObj("function " \o k \o "() { [native code] }")
  ELSE JsUndefined

\* o[k]
GetProp(o, k) == IF k \in DOMAIN o THEN o[k] ELSE Inherited(k)

\* o[k] = v; the setter of __proto__ ignores a value that is no object
SetProp(o, k, v) ==
  IF k = "__proto__" /\ v.t /= "object" THEN o
  ELSE [x \in DOMAIN o \cup {k} |-> IF x = k THEN v ELSE o[x]]

\* an element of the transactions array: an object with its fields, or null
Tx(fields) == [kind |-> "object", f |-> fields]
TxNull == [kind |-> "null", f |-> <<>>]

\* an element that is a number or a string: every field of it is undefined
TxScalar == [kind |-> "scalar", f |-> <<>>]

\* transaction.name
Field(tx, name) == IF name \in DOMAIN tx.f THEN tx.f[name] ELSE JsUndefined

\* the first truthy value of the fields named, or else
RECURSIVE FirstTruthy(_, _, _)
FirstTruthy(tx, names, else) ==
  IF names = <<>> THEN else
  ELSE IF JsTruthy(Field(tx, Head(names))) THEN Field(tx, Head(names))
  ELSE FirstTruthy(tx, Tail(names), else)

\* the first of the fields named that is neither undefined nor null
RECURSIVE FirstPresent(_, _)
FirstPresent(tx, names) ==
  IF names = <<>> THEN JsUndefined
  ELSE IF Field(tx, Head(names)).t \notin {"undefined", "null"}
    THEN Field(tx, Head(names))
  ELSE FirstPresent(tx, Tail(names))

\* the first of the fields named that is not undefined
RECURSIVE FirstDefined(_, _)
FirstDefined(tx, names) ==
  IF names = <<>> THEN JsUndefined
  ELSE IF Field(tx, Head(names)).t /= "undefined" THEN Field(tx, Head(names))
  ELSE FirstDefined(tx, Tail(names))

\* a Date that was not supplied
NoDateGiven == 0 - 1

\* a Date that is an Invalid Date
InvalidDate == 0 - 2

\* new Date(v).getTime() in hours, NoDateGiven for an invalid date
TransactionDate(v) ==
  IF v.t = "string" /\ IsDateStr(v.s) THEN DateTime(v.s)
  ELSE IF v.t = "number" THEN v.n \div MsPerHour
  ELSE NoDateGiven

\* a filter that drops the records whose date cannot be read
DateFilterFailClosed(tx, fromDate, toDate) ==
  IF tx.kind = "null" THEN FALSE
  ELSE LET transactionDateStr ==
             FirstTruthy(tx, <<"date", "timestamp", "created_at", "createdAt">>,
                         JsUndefined)
           transactionDate == TransactionDate(transactionDateStr)
       IN  IF ~JsTruthy(transactionDateStr) THEN FALSE
           ELSE IF transactionDate = NoDateGiven THEN FALSE
           ELSE IF fromDate /= NoDateGiven /\ transactionDate < fromDate THEN FALSE
           ELSE IF toDate /= NoDateGiven /\ transactionDate > toDate THEN FALSE
           ELSE TRUE

\* the callback of transactions.filter
DateFilter(tx, fromDate, toDate) ==
  IF tx.kind = "null" THEN TRUE
  ELSE LET transactionDateStr ==
             FirstTruthy(tx, <<"date", "timestamp", "created_at", "createdAt">>,
                         JsUndefined)
           transactionDate == TransactionDate(transactionDateStr)
       IN  IF ~JsTruthy(transactionDateStr) THEN TRUE
           ELSE IF transactionDate = NoDateGiven THEN TRUE
           ELSE IF fromDate /= NoDateGiven /\ transactionDate < fromDate THEN FALSE
           ELSE IF toDate /= NoDateGiven /\ transactionDate > toDate THEN FALSE
           ELSE TRUE

ZeroResult == [costs |-> <<>>, tokens |-> <<>>, totalTokens |-> 0]

NoTotals ==
  [costs |-> <<>>, tokens |-> <<>>, totalTokens |-> 0, processedItems |-> 0,
   skippedItems |-> 0]

\* a validity gate that lets a record through whose cost is NaN
isSkippedForModelOnly(model, cost) ==
  \/ model = JsStr("unknown")
  \/ model.t /= "string"

\* the record is counted in skippedItems: its model is 'unknown', its cost is
\* NaN, or model.split is no function and the catch of the loop body runs
isSkipped(model, cost) ==
  \/ model = JsStr("unknown")
  \/ cost.t = "NaN"
  \/ model.t /= "string"

\* the body of the loop over filteredTransactions
processTransaction(acc, tx) ==
  LET skipped == [acc EXCEPT !.skippedItems = @ + 1]
  IN  IF tx.kind = "null" THEN skipped
      ELSE
        LET model ==
              FirstTruthy(tx, <<"model_permaslug", "model", "model_slug",
                                "model_name", "slug">>, JsStr("unknown"))
            costField ==
              FirstPresent(tx, <<"usage", "cost", "total_cost", "amount", "price">>)
            cost == IF costField.t = "undefined" THEN JsNum(0)
                    ELSE JsParseFloat(costField)
            tokenField ==
              FirstDefined(tx, <<"prompt_tokens", "tokens", "input_tokens">>)
            tokens == IF tokenField.t = "undefined" THEN JsNum(0)
                      ELSE JsOr(JsParseInt(tokenField), JsNum(0))
            completionField ==
              FirstDefined(tx, <<"completion_tokens", "output_tokens">>)
            completionTokens ==
              IF completionField.t = "undefined" THEN JsNum(0)
              ELSE JsOr(JsParseInt(completionField), JsNum(0))
            totalTransactionTokens == tokens.n + completionTokens.n
        IN  IF isSkipped(model, cost) THEN skipped
            ELSE
              LET modelKey ==
                    IF Trim(AfterLastSlash(model.s, Len(model.s))) /= ""
                      THEN Trim(AfterLastSlash(model.s, Len(model.s)))
                      ELSE model.s
              IN  IF cost.n > 0 \/ totalTransactionTokens > 0
                    THEN [acc EXCEPT
                            !.costs =
                              SetProp(@, modelKey,
                                      JsAdd(JsOr(GetProp(@, modelKey), JsNum(0)), cost)),
                            !.tokens =
                              SetProp(@, modelKey,
                                      JsAdd(JsOr(GetProp(@, modelKey), JsNum(0)),
                                            JsNum(totalTransactionTokens))),
                            !.totalTokens = @ + totalTransactionTokens,
                            !.processedItems = @ + 1]
                    ELSE [acc EXCEPT !.processedItems = @ + 1]

\* the loop over filteredTransactions
RECURSIVE processAll(_, _)
processAll(acc, txs) ==
  IF txs = <<>> THEN acc
  ELSE processAll(processTransaction(acc, Head(txs)), Tail(txs))

\* the transactions array of the response: jsonData.data, jsonData.data.data
\* or jsonData itself, whichever is an array
TransactionsOf(jsonData) ==
  IF jsonData.shape \in {"data", "data.data", "array"} THEN jsonData.transactions
  ELSE <<>>

\* filteredTransactions
filterTransactions(transactions, fromDate, toDate) ==
  IF fromDate /= NoDateGiven \/ toDate /= NoDateGiven
    THEN SelectSeq(transactions, LAMBDA tx : DateFilter(tx, fromDate, toDate))
    ELSE transactions

\* fromDate?.toISOString() in the first console.log of processJSONData throws
\* a RangeError for an Invalid Date
processJSONDataThrows(fromDate, toDate) ==
  fromDate = InvalidDate \/ toDate = InvalidDate

processJSONData(jsonData, fromDate, toDate) ==
  LET transactions == TransactionsOf(jsonData)
      filteredTransactions == filterTransactions(transactions, fromDate, toDate)
      acc == processAll(NoTotals, filteredTransactions)
  IN  IF Len(transactions) = 0 THEN ZeroResult
      ELSE [costs |-> acc.costs, tokens |-> acc.tokens,
            totalTokens |-> acc.totalTokens]

\* the kinds of responseText that reach processJSONData: an object, or a
\* string that JSON.parse accepts
ParsedKinds == {"object", "json"}

\* a processOpenRouterResponse without its outer catch
processOpenRouterResponseNoCatch(response, jsonData, fromDate, toDate) ==
  IF response \in ParsedKinds /\ ~processJSONDataThrows(fromDate, toDate)
    THEN [raised |-> FALSE, reached |-> TRUE,
          result |-> processJSONData(jsonData, fromDate, toDate)]
    ELSE [raised |-> TRUE, reached |-> FALSE, result |-> ZeroResult]

\* processOpenRouterResponse(responseText, fromDate, toDate): responseText is
\* an object, a string of JSON ("json"), another string ("text"), '' ("empty"),
\* null, a number or undefined; every throw ends in the outer catch
processOpenRouterResponse(response, jsonData, fromDate, toDate) ==
  IF response \in ParsedKinds /\ ~processJSONDataThrows(fromDate, toDate)
    THEN [raised |-> FALSE, reached |-> TRUE,
          result |-> processJSONData(jsonData, fromDate, toDate)]
    ELSE [raised |-> FALSE, reached |-> FALSE, result |-> ZeroResult]

(***************************************************************************)
(* SpecAgg: processJSONData applied to every response of at most MaxTx     *)
(* transactions drawn from AggTransactions, in every shape and with every  *)
(* date filter of AggFilters.                                              *)
(***************************************************************************)
AggTransactions ==
  { Tx([model_permaslug |-> JsStr("openai/gpt-4"), usage |-> JsNum(3),
        prompt_tokens |-> JsNum(5), completion_tokens |-> JsNum(2),
        created_at |-> JsStr(DateStr(14))]),
    Tx([model |-> JsStr("azure/gpt-4 "), cost |-> JsStr("2"),
        tokens |-> JsStr("7 tokens"), created_at |-> JsStr(DateStr(16))]),
    Tx([model |-> JsStr("anthropic/claude"), usage |-> JsNum(0),
        prompt_tokens |-> JsNull, tokens |-> JsNum(9)]),
    Tx([usage |-> JsNum(1), prompt_tokens |-> JsNum(4)]),
    Tx([model |-> JsStr("gpt-4"), usage |-> JsStr("n/a"),
        prompt_tokens |-> JsNum(4), created_at |-> JsStr("yesterday")]),
    Tx([model |-> JsStr("acme/constructor"), usage |-> JsNum(1),
        prompt_tokens |-> JsNum(3)]),
    Tx([model |-> JsStr("__proto__"), prompt_tokens |-> JsNum(6)]),
    Tx([model |-> JsStr("gpt-4"), usage |-> JsNum(0 - 1),
        prompt_tokens |-> JsNum(0 - 4), completion_tokens |-> JsNum(1),
        created_at |-> JsStr(DateStr(15))]),
    Tx([model |-> JsNum(5), usage |-> JsNum(1), prompt_tokens |-> JsNum(2)]),
    Tx([model |-> JsStr("openai/gpt-4"), usage |-> JsNum(0 - 2),
        prompt_tokens |-> JsNum(5)]),
    Tx([model |-> JsStr("openai/gpt-4"), usage |-> JsNum(2),
        prompt_tokens |-> JsNum(0 - 4)]),
    TxNull, TxScalar }

AggShapes == {"data", "data.data", "array", "other"}

\* JSON that is no object: null and a number
AggScalars == {"null", "number"}

\* what is passed for responseText that cannot be processed
AggMalformed == {"text", "empty", "null", "number", "undefined"}

\* fromDate and toDate, in hours
AggFilters ==
  {<<NoDateGiven, NoDateGiven>>, <<DateTime(DateStr(15)), DateTime(DateStr(16))>>,
   <<NoDateGiven, DateTime(DateStr(15))>>, <<InvalidDate, NoDateGiven>>}

RECURSIVE SeqsUpTo(_, _)
SeqsUpTo(S, n) ==
  IF n = 0 THEN {<<>>}
  ELSE LET shorter == SeqsUpTo(S, n - 1)
       IN  shorter \cup {Append(q, x) : q \in shorter, x \in S}

\* the responses: every array of transactions in every shape, as an object
\* and as a string of JSON; the JSON scalars; the malformed ones
AggInputs ==
  {[response |-> kind, jsonData |-> [shape |-> shape, transactions |-> txs]] :
     kind \in ParsedKinds, shape \in AggShapes,
     txs \in SeqsUpTo(AggTransactions, MaxTx)}
  \cup {[response |-> "json", jsonData |-> [shape |-> shape, transactions |-> <<>>]] :
          shape \in AggScalars}
  \cup {[response |-> kind, jsonData |-> [shape |-> "other", transactions |-> <<>>]] :
          kind \in AggMalformed}

InitAgg ==
  /\ store = <<>>
  /\ written = <<>>
  /\ now = 0
  /\ DEV_MODE = FALSE
  /\ inflight = [i \in Slots |-> Idle]
  /\ calls = 0
  /\ obs = NoObs
  /\ page = NoPage
  /\ log = NoLog
  /\ \E input \in AggInputs, filter \in AggFilters :
       agg = [phase |-> "response", response |-> input.response,
              jsonData |-> input.jsonData,
              fromDate |-> filter[1], toDate |-> filter[2],
              filtered |-> <<>>, raised |-> FALSE, reached |-> FALSE,
              result |-> ZeroResult]

\* a call of processOpenRouterResponse; filtered is the filteredTransactions
\* of a processJSONData that ran
ProcessResponse ==
  /\ agg.phase = "response"
  /\ LET r == processOpenRouterResponse(agg.response, agg.jsonData, agg.fromDate,
                                        agg.toDate)
     IN  agg' = [agg EXCEPT
                   !.phase = "result",
                   !.raised = r.raised,
                   !.reached = r.reached,
                   !.filtered =
                     IF r.reached
                       THEN filterTransactions(TransactionsOf(agg.jsonData),
                                               agg.fromDate, agg.toDate)
                       ELSE <<>>,
                   !.result = r.result]
  /\ UNCHANGED <<store, now, DEV_MODE, inflight, calls, obs, page>>

NextAgg == ProcessResponse /\ UNCHANGED <<log, written>>

SpecAgg == InitAgg /\ [][NextAgg]_vars

(***************************************************************************)
(* The Logger (debug.ts).  The module is loaded with DEV_MODE false: the   *)
(* class initializer reads it before the callback of chrome.storage has    *)
(* run, and Logger.init() runs at the end of the module.  A stored entry   *)
(* is kept with its level and its time.                                    *)
(***************************************************************************)
LOG_LEVELS == [ERROR |-> 0, WARN |-> 1, INFO |-> 2, LOG |-> 3, DEBUG |-> 4]

MAX_LOGS == 100

LowerCaseChars == "abcdefghijklmnopqrstuvwxyz"

UpperCaseChars == "ABCDEFGHIJKLMNOPQRSTUVWXYZ"

\* level.toUpperCase()
RECURSIVE toUpperCase(_)
toUpperCase(str) ==
  IF str = "" THEN ""
  ELSE LET c == SubSeq(str, 1, 1)
           up == IF \E i \in 1..26 : SubSeq(LowerCaseChars, i, i) = c
                   THEN LET i == CHOOSE i \in 1..26 : SubSeq(LowerCaseChars, i, i) = c
                        IN  SubSeq(UpperCaseChars, i, i)
                   ELSE c
       IN  up \o toUpperCase(SubSeq(str, 2, Len(str)))

shouldLog(level, currentLogLevel) ==
  (IF level \in DOMAIN LOG_LEVELS THEN LOG_LEVELS[level] ELSE 0) <= currentLogLevel

LogFunctions == {"debug", "log", "warn", "error", "api", "cache"}

\* the level each function passes to shouldLog; error passes none
GateLevel ==
  [debug |-> "DEBUG", log |-> "LOG", warn |-> "WARN", api |-> "INFO", cache |-> "INFO"]

\* the level each function gives its entry
EntryLevel ==
  [debug |-> "DEBUG", log |-> "LOG", warn |-> "WARN", error |-> "ERROR",
   api |-> "API", cache |-> "CACHE"]

NoCall ==
  [fn |-> "none", via |-> "none", devMode |-> FALSE, passed |-> FALSE,
   console |-> FALSE, stored |-> FALSE, quota |-> "none"]

\* storeLog(logEntry): the entry is appended and the oldest entries beyond
\* MAX_LOGS are dropped; nothing changes when setItem throws (q = "logs")
storeLog(logs, logEntry, q) ==
  LET existingLogs == Append(logs, logEntry)
  IN  IF q /= "none" THEN logs
      ELSE IF Len(existingLogs) > MAX_LOGS
        THEN SubSeq(existingLogs, Len(existingLogs) - MAX_LOGS + 1, Len(existingLogs))
      ELSE existingLogs

\* Logger.debug, log, warn, error, api and cache, on the logger lg
logCall(lg, fn, via, devMode, time, q) ==
  LET passed == fn = "error" \/ shouldLog(GateLevel[fn], lg.level)
      console == passed /\ (fn \in {"warn", "error"} \/ devMode)
      logEntry == [level |-> EntryLevel[fn], timestamp |-> time]
  IN  [lg EXCEPT
         !.stored = IF passed THEN storeLog(@, logEntry, q) ELSE @,
         !.last = [fn |-> fn, via |-> via, devMode |-> devMode, passed |-> passed,
                   console |-> console, stored |-> passed /\ q = "none",
                   quota |-> q]]

\* Logger.setLogLevel(level)
setLogLevel(lg, level, via, devMode, time, q) ==
  IF toUpperCase(level) \in DOMAIN LOG_LEVELS
    THEN logCall([lg EXCEPT !.level = LOG_LEVELS[toUpperCase(level)]],
                 "debug", via, devMode, time, q)
    ELSE logCall(lg, "warn", via, devMode, time, q)

SevenDaysMs == 7 * 24 * 60 * 60 * 1000

\* cleanupOldLogs(): the entries of the last seven days are kept
cleanupOldLogs(logs, time, q) ==
  LET filteredLogs == SelectSeq(logs, LAMBDA e : e.timestamp > time - SevenDaysMs)
  IN  IF Len(filteredLogs) /= Len(logs) /\ q = "none" THEN filteredLogs ELSE logs

\* what localStorage holds under LOG_CONFIG_KEY: nothing, JSON with a
\* logLevel ('' for JSON without one), or text that is no JSON
LogConfigs ==
  {[kind |-> "none", logLevel |-> ""], [kind |-> "corrupt", logLevel |-> ""],
   [kind |-> "json", logLevel |-> ""], [kind |-> "json", logLevel |-> "debug"],
   [kind |-> "json", logLevel |-> "error"], [kind |-> "json", logLevel |-> "verbose"]}

\* the levels setLogLevel is called with
LevelNames == {"error", "WARN", "Info", "debug", "verbose"}

\* the entries left by earlier sessions: none, one of eight days ago, one of
\* one day ago
EarlierLogs ==
  {<<>>, <<[level |-> "WARN", timestamp |-> 0 - 8 * 24 * 60 * 60 * 1000]>>,
   <<[level |-> "ERROR", timestamp |-> 0 - 24 * 60 * 60 * 1000]>>}

InitLog ==
  /\ store = <<>>
  /\ written = <<>>
  /\ now = 0
  /\ DEV_MODE = FALSE
  /\ inflight = [i \in Slots |-> Idle]
  /\ calls = 0
  /\ obs = NoObs
  /\ page = NoPage
  /\ agg = NoAgg
  /\ \E debugMode \in BOOLEAN, config \in LogConfigs, logs \in EarlierLogs :
       log = [phase |-> "load",
              level |-> IF DEV_MODE THEN LOG_LEVELS.DEBUG ELSE LOG_LEVELS.INFO,
              debugMode |-> debugMode, synced |-> FALSE, config |-> config,
              stored |-> logs, last |-> NoCall]

\* Logger.init() at the end of the module
LoggerInit(q, cq) ==
  /\ log.phase = "load"
  /\ LET configured ==
           IF log.config.kind = "json" /\ log.config.logLevel /= ""
             THEN setLogLevel(log, log.config.logLevel, "init", DEV_MODE, now, q)
             ELSE log
     IN  log' = [configured EXCEPT
                   !.phase = "run",
                   !.stored = cleanupOldLogs(@, now, cq)]
  /\ UNCHANGED <<store, now, DEV_MODE, inflight, calls, obs, page, agg, written>>

\* the callback of chrome.storage.sync.get(['debugMode'])
StorageLoaded ==
  /\ log.phase = "run"
  /\ ~log.synced
  /\ DEV_MODE' = log.debugMode
  /\ log' = [log EXCEPT !.synced = TRUE]
  /\ UNCHANGED <<store, now, inflight, calls, obs, page, agg, written>>

\* the listener of chrome.storage.onChanged, for a change of debugMode
DebugModeChanged(newValue) ==
  /\ log.phase = "run"
  /\ newValue /= log.debugMode
  /\ DEV_MODE' = newValue
  /\ log' = [log EXCEPT !.debugMode = newValue]
  /\ UNCHANGED <<store, now, inflight, calls, obs, page, agg, written>>

\* a call of Logger.setLogLevel
SetLogLevel(level, q) ==
  /\ log.phase = "run"
  /\ calls < MaxLogCalls
  /\ log' = setLogLevel(log, level, "setLogLevel", DEV_MODE, now, q)
  /\ calls' = calls + 1
  /\ UNCHANGED <<store, now, DEV_MODE, inflight, obs, page, agg, written>>

\* a call of Logger.debug, log, warn, error, api or cache
LogCall(fn, q) ==
  /\ log.phase = "run"
  /\ calls < MaxLogCalls
  /\ log' = logCall(log, fn, "call", DEV_MODE, now, q)
  /\ calls' = calls + 1
  /\ UNCHANGED <<store, now, DEV_MODE, inflight, obs, page, agg, written>>

LogQuota == {"none", "logs"}

NextLog ==
  \/ \E q \in LogQuota, cq \in LogQuota : LoggerInit(q, cq)
  \/ StorageLoaded
  \/ \E v \in BOOLEAN : DebugModeChanged(v)
  \/ \E level \in LevelNames, q \in LogQuota : SetLogLevel(level, q)
  \/ \E fn \in LogFunctions, q \in LogQuota : LogCall(fn, q)

SpecLog == InitLog /\ [][NextLog]_vars

(***************************************************************************)
(* Properties.  They speak of the store through the layout of its keys,    *)
(* written out here, and of a handler through obs.                         *)
(***************************************************************************)
\* the payload record of the range [cf, ct], cf and ct days
EntryKey(cf, ct) ==
  <<"openrouter", "transaction", "cache", "v2", DateStr(cf), "to", DateStr(ct)>>

\* the expiry record that governs the entries ending on day ct
EntryExpiryKey(ct) == <<"openrouter", "transaction", "expiry", "v2", DateStr(ct)>>

AllDays == 1..Len(DateStrings)

\* the payload record a request for (from, to) is stored under
RequestKey(from, to) ==
  IF from = NULL \/ to = NULL THEN EntryKey(1, 31)
  ELSE <<"openrouter", "transaction", "cache", "v2", from, "to", to>>

DayStrings == {DateStr(d) : d \in AllDays}

\* the day a date string names
DayOf(str) == CHOOSE d \in AllDays : DateStr(d) = str

IsPayloadKey(k) ==
  /\ Len(k) = 7
  /\ SubSeq(k, 1, 4) = <<"openrouter", "transaction", "cache", "v2">>
  /\ k[5] \in DayStrings
  /\ k[6] = "to"
  /\ k[7] \in DayStrings

PayloadKeys(s) == {k \in DOMAIN s : IsPayloadKey(k)}

WellFormed(text) == text \in {BodyA, BodyB}

\* C1: a set(range, payload) that wrote its records, immediately followed by
\* get(range), returns exactly that payload.
C1_RoundTrip ==
  (obs.op = "call" /\ obs.prevSet /= NULL) => obs.cacheRead = obs.prevSet

\* C2: get never returns the payload of an entry whose expiry time is in the
\* past, neither from the exact lookup nor from the covering-range scan.
C2_ExpiredNeverReturned ==
  (obs.op = "call" /\ obs.hitKey /= NoKey)
    => ~(obs.hitExpiry /= NULL /\ now > parseInt(obs.hitExpiry))

\* the stored ranges [cf, ct] with cf <= f and t <= ct, f and t days
Covering(s, f, t) ==
  {k \in PayloadKeys(s) : DayOf(k[5]) <= f /\ t <= DayOf(k[7])}

\* the covering entries that are live and well-formed
LiveCovering(s, f, t, time) ==
  {k \in Covering(s, f, t) :
     /\ WellFormed(s[k])
     /\ EntryExpiryKey(DayOf(k[7])) \in DOMAIN s
     /\ time <= parseInt(s[EntryExpiryKey(DayOf(k[7]))])}

\* a step that is a call of fetchActivityData for two days, made while no
\* exact entry for the requested range is stored
CallWithoutExact ==
  /\ obs'.op = "call"
  /\ obs'.from \in DayStrings
  /\ obs'.to \in DayStrings
  /\ EntryKey(DayOf(obs'.from), DayOf(obs'.to)) \notin DOMAIN store

\* C3 as stated: the fetch returns the payload of every live, well-formed
\* covering entry, without a network request.
C3_Original ==
  [][CallWithoutExact =>
       \A k \in LiveCovering(store, DayOf(obs'.from), DayOf(obs'.to), now) :
         /\ obs'.outcome = "cached"
         /\ obs'.value = store[k]
         /\ obs'.requests = 0]_vars

\* C3 amended: when a live, well-formed entry covers [f, t], no exact entry is
\* stored and every stored entry covering [f, t] is well-formed, the fetch
\* returns the payload of one of the covering entries, without a network request.
C3_OverlapCoverage ==
  [][( /\ CallWithoutExact
       /\ LiveCovering(store, DayOf(obs'.from), DayOf(obs'.to), now) /= {}
       /\ \A k \in Covering(store, DayOf(obs'.from), DayOf(obs'.to)) :
            WellFormed(store[k]) )
     => /\ obs'.outcome = "cached"
        /\ \E k \in Covering(store, DayOf(obs'.from), DayOf(obs'.to)) :
             obs'.value = store[k]
        /\ obs'.requests = 0
        /\ inflight' = inflight]_vars

\* a request was answered from a live covering entry while another entry
\* covered the same range
C3_Witness ==
  /\ obs.op = "call"
  /\ obs.outcome = "cached"
  /\ obs.hitKey /= NoKey
  /\ obs.hitKey /= RequestKey(obs.from, obs.to)
  /\ RequestKey(obs.from, obs.to) \notin DOMAIN store
  /\ obs.from \in DayStrings
  /\ obs.to \in DayStrings
  /\ Cardinality(Covering(store, DayOf(obs.from), DayOf(obs.to))) >= 2
  /\ LiveCovering(store, DayOf(obs.from), DayOf(obs.to), now) /= {}

\* C4: once a set has completed, the store holds at most MAX_CACHE_ENTRIES
\* payload entries.
C4_EvictionBound ==
  (obs.op = "respond" /\ obs.outcome = "ok")
    => Cardinality(PayloadKeys(store)) <= 10

\* C5: a cached payload read for a request that does not parse is removed from
\* the store and the read is a miss, not an error.
C5_CorruptDiscarded ==
  (obs.op = "call" /\ obs.hitKey /= NoKey /\ JSONParse(obs.cacheRead) = "throws")
    => /\ obs.hitKey \notin DOMAIN store
       /\ obs.outcome \in {"pending", "dev"}

\* C6: a call issues at most one network request: none when it returns a
\* cached payload, one otherwise, whatever the response.
C6_AtMostOneRequest ==
  [][/\ obs'.requests <= 1
     /\ \A i \in Slots : inflight'[i].requests <= 1
     \* a call that returns a cached payload issues no request
     /\ (obs'.op = "call" /\ obs'.outcome \in {"cached", "dev"})
          => (obs'.requests = 0 /\ inflight' = inflight)
     \* a call that misses issues its one request
     /\ (obs'.op = "call" /\ obs'.outcome = "pending")
          => /\ obs'.requests = 1
             /\ \E i \in Slots :
                  /\ ~inflight[i].busy
                  /\ inflight'[i].busy /\ inflight'[i].requests = 1
                  /\ \A j \in Slots \ {i} : inflight'[j] = inflight[j]
     \* whatever the response, the call ends after that one request
     /\ obs'.op = "respond"
          => /\ obs'.requests = 1
             /\ \E i \in Slots :
                  /\ inflight[i].busy /\ inflight[i].requests = 1
                  /\ ~inflight'[i].busy
                  /\ \A j \in Slots \ {i} : inflight'[j] = inflight[j]]_vars

\* a call whose request was answered with 503 has ended after one request
C6_Witness ==
  obs.op = "respond" /\ obs.status = 503 /\ obs.outcome = "error" /\ obs.requests = 1

\* the records of the range-keyed cache and of the dev cache
CacheRecords(s) ==
  {<<k, s[k]>> : k \in {x \in DOMAIN s :
      \/ startsWith(x, <<"openrouter", "transaction", "cache">>)
      \/ startsWith(x, <<"openrouter", "transaction", "expiry">>)
      \/ startsWith(x, <<"openrouter", "dev", "cache">>)}}

\* C7: a response with a status outside 200..299 ends the fetch in a failure,
\* returns no payload and leaves both caches as they were.
C7_HttpFailure ==
  [][(obs'.op = "respond" /\ obs'.status /= 0 /\ (obs'.status < 200 \/ obs'.status > 299))
       => /\ obs'.outcome = "error"
          /\ obs'.value = NULL
          /\ obs'.error /= ""
          /\ CacheRecords(store') = CacheRecords(store)]_vars

\* a 429 arrived in debug mode while the dev cache held a payload
C7_Witness ==
  /\ obs.op = "respond" /\ obs.status = 429 /\ obs.outcome = "error"
  /\ DEV_MODE
  /\ <<"openrouter", "dev", "cache">> \in DOMAIN store

C9_QuotaRetry ==
  (obs.op = "respond" /\ obs.outcome = "ok" /\ obs.quota \in {"payload", "expiry"})
    => (obs.sweeps = 1 /\ obs.retries = 1 /\ obs.value /= NULL)

\* the entries whose expiry record holds a time that has passed
ExpiredEntries(s, time) ==
  {k \in PayloadKeys(s) :
     /\ EntryExpiryKey(DayOf(k[7])) \in DOMAIN s
     /\ time > parseInt(s[EntryExpiryKey(DayOf(k[7]))])}

\* C10: after a sweep no expired entry remains: its payload record is gone
\* (unless the same handler wrote it anew).
C10_SweepEffect ==
  [][obs'.sweeps > 0
       => \A k \in ExpiredEntries(store, now) :
            k \in DOMAIN store' => \E w \in obs'.wrote : w[1] = k]_vars

\* the periodic sweep is due: no last-cleanup timestamp is persisted, or it
\* is more than CACHE_CLEANUP_INTERVAL old
SweepDue(s, time) ==
  \/ ~Truthy(getItem(s, lastCleanupKey))
  \/ time - parseInt(getItem(s, lastCleanupKey)) > CACHE_CLEANUP_INTERVAL

\* C11: a range-keyed cache write made while the periodic sweep is due runs
\* the sweep and persists the time as the last-cleanup timestamp; a write made
\* while it is not due runs no sweep; with the debug flag on or off.
C11_SweepTrigger ==
  [][(obs'.op = "respond" /\ obs'.outcome = "ok" /\ obs'.quota = "none")
       => IF SweepDue(store, now)
            THEN /\ obs'.sweeps = 1
                 /\ getItem(store', lastCleanupKey) = toString(now)
            ELSE /\ obs'.sweeps = 0
                 /\ getItem(store', lastCleanupKey) = getItem(store, lastCleanupKey)]_vars

\* C17: a resolved `to` that is later than today (later than the local and
\* than the UTC calendar day) is set to today by the post-processing, and a
\* `from` that is then later than `to` is set equal to it.
C17_Clamping ==
  LET h == UtcHour(page, now)
      t0 == page.resolved[2]
      f0 == page.resolved[1]
  IN  ( /\ page.passes >= 1
        /\ IsDateStr(t0)
        /\ ParseDate(t0) > LocalToday(h, page.tz)
        /\ ParseDate(t0) > UtcToday(h) )
        => /\ page.range[2] \in {DateStr(LocalToday(h, page.tz)), DateStr(UtcToday(h))}
           /\ (IsDateStr(f0) /\ ParseDate(f0) > ParseDate(page.range[2]))
                => page.range[1] = page.range[2]

\* C18: the post-processing leaves a range with from <= to <= today as it is,
\* and the second pass changes nothing the first pass produced.
C18_Idempotence ==
  LET h == UtcHour(page, now)
      f0 == page.resolved[1]
      t0 == page.resolved[2]
      once == normalizeDates(f0, t0, h, page.tz)
  IN  /\ ( /\ page.passes >= 1
           /\ IsDateStr(f0) /\ IsDateStr(t0)
           /\ ParseDate(f0) <= ParseDate(t0)
           /\ \/ ParseDate(t0) <= LocalToday(h, page.tz)
              \/ ParseDate(t0) <= UtcToday(h) )
          => page.range = page.resolved
      /\ page.passes = 1 => page.range = once
      /\ page.passes = 2 => page.range = once

\* both passes ran on a range whose two dates the first pass changed
C18_Witness ==
  /\ page.passes = 2
  /\ IsDateStr(page.resolved[1]) /\ IsDateStr(page.resolved[2])
  /\ page.range[1] /= page.resolved[1]
  /\ page.range[2] /= page.resolved[2]

\* C14: while the debug flag is off a fetch reads no cached payload and
\* writes no payload to localStorage: every call goes to the network.
C14_ProductionNoCache ==
  /\ (~DEV_MODE /\ obs.op = "call")
       => (obs.outcome = "pending" /\ obs.cacheRead = NULL /\ obs.requests = 1)
  /\ (~DEV_MODE /\ obs.op = "respond") => obs.wrote = {}

\* the records of the dev cache
DevRecords(s) == {<<k, s[k]>> : k \in {CACHE_KEY, CACHE_EXPIRY_KEY} \cap DOMAIN s}

\* C15: the fetcher returns the dev payload only with the debug flag set,
\* only after the range lookup gave no valid payload, and only up to its
\* expiry time, which is 30 minutes after the payload was stored; with the
\* flag off the fetcher leaves the dev cache as it is.
C15_DevGating ==
  [][/\ (obs'.op = "call" /\ obs'.outcome = "dev")
          => /\ DEV_MODE
             /\ ~(Truthy(obs'.cacheRead) /\ JSONParse(obs'.cacheRead) = "object")
             /\ obs'.value = getItem(store, CACHE_KEY)
             /\ Truthy(getItem(store, CACHE_EXPIRY_KEY))
             /\ now <= parseInt(getItem(store, CACHE_EXPIRY_KEY))
     /\ (~DEV_MODE /\ obs'.op \in {"call", "respond"})
          => (DevRecords(store') = DevRecords(store) /\ obs'.outcome /= "dev")
     \* a payload is stored together with an expiry 30 minutes ahead
     /\ (Truthy(getItem(store', CACHE_KEY)) /\ Truthy(getItem(store', CACHE_EXPIRY_KEY)))
          => \/ getItem(store', CACHE_EXPIRY_KEY) = toString(now + CACHE_DURATION)
             \/ /\ getItem(store', CACHE_EXPIRY_KEY) = getItem(store, CACHE_EXPIRY_KEY)
                /\ getItem(store', CACHE_KEY) = getItem(store, CACHE_KEY)]_vars

\* the dev payload was returned twenty minutes after it was stored, when the
\* range entry of the same response had expired
C15_Witness ==
  /\ obs.op = "call" /\ obs.outcome = "dev" /\ DEV_MODE
  /\ now = TtlTickMs
  /\ getItem(store, CACHE_EXPIRY_KEY) = toString(CACHE_DURATION)

Busy(f) == {i \in DOMAIN f : f[i].busy}

\* C13: the URL monitor is not interlocked with the requests in flight: every
\* change of the date parameters it takes note of starts a pipeline run,
\* whatever is in flight, and a run that misses the cache adds a request to
\* those in flight.
C13_NotInterlocked ==
  [][page'.last /= page.last
       => /\ obs'.op = "call" /\ calls' = calls + 1 /\ page'.trigger = "auto"
          /\ obs'.outcome = "pending"
               => Cardinality(Busy(inflight')) = Cardinality(Busy(inflight)) + 1]_vars

\* two requests for the same range are in flight at the same time
C13_Witness ==
  /\ inflight[1].busy /\ inflight[2].busy
  /\ inflight[1].from = inflight[2].from
  /\ inflight[1].to = inflight[2].to
  /\ inflight[1].from /= NULL

\* C16: the run started by the refresh button returns no cached payload: it
\* issues a network request.
C16_RefreshFetchesFresh ==
  (obs.op = "call" /\ page.trigger = "refresh")
    => (obs.outcome = "pending" /\ obs.requests = 1)

\* the range fetchActivityData works with: the current month when a
\* parameter is missing
EffectiveRange(from, to) ==
  IF ~Truthy(from) \/ ~Truthy(to) THEN <<CurrentMonthFirst, CurrentMonthLast>>
  ELSE <<from, to>>

\* C19: the range every pipeline run passes to fetchActivityData has
\* from <= to, and its `to` is not later than today (the local or the UTC
\* calendar day).
C19_RangeInvariant ==
  LET r == EffectiveRange(obs.from, obs.to)
      h == UtcHour(page, now)
  IN  obs.op = "call"
        => /\ IsDateStr(r[1]) /\ IsDateStr(r[2])
           /\ ParseDate(r[1]) <= ParseDate(r[2])
           /\ \/ ParseDate(r[2]) <= LocalToday(h, page.tz)
              \/ ParseDate(r[2]) <= UtcToday(h)

\* the sum of the values of a mapping from names to numbers
RECURSIVE SumValues(_, _)
SumValues(o, keys) ==
  IF keys = {} THEN 0
  ELSE LET k == CHOOSE x \in keys : TRUE
       IN  o[k].n + SumValues(o, keys \ {k})

\* C20: in every result of processJSONData the values of tokens are numbers
\* and totalTokens is their sum.
C20_TotalTokens ==
  agg.phase = "result"
    => /\ \A k \in DOMAIN agg.result.tokens : agg.result.tokens[k].t = "number"
       /\ agg.result.totalTokens
            = SumValues(agg.result.tokens, DOMAIN agg.result.tokens)

\* the totals after each record of a pass: the first element is the totals
\* the pass starts with
RECURSIVE PassStates(_, _)
PassStates(acc, txs) ==
  IF txs = <<>> THEN <<acc>>
  ELSE <<acc>> \o PassStates(processTransaction(acc, Head(txs)), Tail(txs))

\* the value of key k in mapping o is a number that is not negative and not
\* below its value in mapping before (0 when before has no such key)
NotDecreased(before, o, k) ==
  /\ o[k].t = "number"
  /\ o[k].n >= 0
  /\ k \in DOMAIN before => (before[k].t = "number" /\ o[k].n >= before[k].n)

\* C21: from one record of a pass to the next no accumulated cost and no
\* accumulated token count of a model decreases, and none is negative.
C21_Monotone ==
  (agg.phase = "result" /\ agg.reached)
    => LET st == PassStates(NoTotals, agg.filtered)
       IN  \A i \in 1..(Len(st) - 1) :
             /\ \A k \in DOMAIN st[i + 1].costs :
                  NotDecreased(st[i].costs, st[i + 1].costs, k)
             /\ \A k \in DOMAIN st[i + 1].tokens :
                  NotDecreased(st[i].tokens, st[i + 1].tokens, k)

ModelFields == <<"model_permaslug", "model", "model_slug", "model_name", "slug">>

CostFields == <<"usage", "cost", "total_cost", "amount", "price">>

\* the model identifier of a record, JsStr("unknown") when it has none
ModelOf(tx) == FirstTruthy(tx, ModelFields, JsStr("unknown"))

\* the parsed cost of a record, 0 when it has no cost field
CostOf(tx) ==
  IF FirstPresent(tx, CostFields).t = "undefined" THEN JsNum(0)
  ELSE JsParseFloat(FirstPresent(tx, CostFields))

\* prompt-side plus completion-side tokens of a record
TokensOf(tx) ==
  LET p == FirstDefined(tx, <<"prompt_tokens", "tokens", "input_tokens">>)
      c == FirstDefined(tx, <<"completion_tokens", "output_tokens">>)
  IN  (IF p.t = "undefined" THEN 0 ELSE JsOr(JsParseInt(p), JsNum(0)).n)
      + (IF c.t = "undefined" THEN 0 ELSE JsOr(JsParseInt(c), JsNum(0)).n)

\* the record is skipped: it is no object, it has no usable model identifier,
\* or its cost is no number
RecordSkipped(tx) ==
  \/ tx.kind /= "object"
  \/ ModelOf(tx).t /= "string"
  \/ ModelOf(tx) = JsStr("unknown")
  \/ CostOf(tx).t = "NaN"

\* the model identifier without its provider prefix (and without blanks
\* around it)
KeyOf(tx) == Trim(AfterLastSlash(ModelOf(tx).s, Len(ModelOf(tx).s)))

\* the record is aggregated under key k
CountsFor(tx, k) == ~RecordSkipped(tx) /\ KeyOf(tx) = k

\* the sum of the parsed costs of the non-skipped records of txs with key k
RECURSIVE SumCosts(_, _)
SumCosts(txs, k) ==
  IF txs = <<>> THEN 0
  ELSE (IF CountsFor(Head(txs), k) THEN CostOf(Head(txs)).n ELSE 0)
       + SumCosts(Tail(txs), k)

\* the sum of the tokens of the non-skipped records of txs with key k
RECURSIVE SumTokens(_, _)
SumTokens(txs, k) ==
  IF txs = <<>> THEN 0
  ELSE (IF CountsFor(Head(txs), k) THEN TokensOf(Head(txs)) ELSE 0)
       + SumTokens(Tail(txs), k)

\* the number mapping o holds for k, 0 when it has no such key
NumberAt(o, k) == IF k \in DOMAIN o THEN o[k].n ELSE 0

\* C22: costs[k] and tokens[k] are numbers, the sums of the parsed costs and
\* of the tokens of exactly the non-skipped records whose model identifier
\* without provider prefix is k, and no other key exists.
C22_AggregationCorrect ==
  (agg.phase = "result" /\ agg.reached)
    => LET txs == agg.filtered
           keys == {KeyOf(txs[i]) : i \in {j \in 1..Len(txs) : ~RecordSkipped(txs[j])}}
           r == agg.result
       IN  /\ DOMAIN r.costs \subseteq keys
           /\ DOMAIN r.tokens \subseteq keys
           /\ \A k \in DOMAIN r.costs : r.costs[k].t = "number"
           /\ \A k \in DOMAIN r.tokens : r.tokens[k].t = "number"
           /\ \A k \in keys :
                /\ NumberAt(r.costs, k) = SumCosts(txs, k)
                /\ NumberAt(r.tokens, k) = SumTokens(txs, k)

\* the sequence without its element i
RemoveAt(q, i) == SubSeq(q, 1, i - 1) \o SubSeq(q, i + 1, Len(q))

\* the record has none of the recognized model fields
NoModelField(tx) ==
  tx.kind = "object" /\ \A n \in 1..Len(ModelFields) : ModelFields[n] \notin DOMAIN tx.f

\* the cost of the record fails to parse as a number
CostUnparseable(tx) == tx.kind = "object" /\ CostOf(tx).t = "NaN"

\* C23: the result for a batch with a record that has no model field, or
\* whose cost does not parse, is the result for the batch without that
\* record.
C23_SkipPolicy ==
  (agg.phase = "result" /\ agg.reached)
    => \A i \in 1..Len(agg.filtered) :
         (NoModelField(agg.filtered[i]) \/ CostUnparseable(agg.filtered[i]))
           => LET rest == processAll(NoTotals, RemoveAt(agg.filtered, i))
              IN  /\ agg.result.costs = rest.costs
                  /\ agg.result.tokens = rest.tokens
                  /\ agg.result.totalTokens = rest.totalTokens

\* a batch where a record without model field stands between two records
\* that are aggregated, and one where the cost of a record does not parse
C23_Witness ==
  /\ agg.phase = "result" /\ agg.reached
  /\ Len(agg.filtered) = 3
  /\ NoModelField(agg.filtered[2]) \/ CostUnparseable(agg.filtered[2])
  /\ ~RecordSkipped(agg.filtered[1]) /\ ~RecordSkipped(agg.filtered[3])
  /\ agg.result.totalTokens = TokensOf(agg.filtered[1]) + TokensOf(agg.filtered[3])
  /\ agg.result.totalTokens > 0

\* the date of a record: the first of its date fields that is truthy
DateOf(tx) ==
  FirstTruthy(tx, <<"date", "timestamp", "created_at", "createdAt">>, JsUndefined)

\* the record has a parseable date strictly before fromDate or strictly
\* after toDate
OutsideRange(tx, fromDate, toDate) ==
  /\ tx.kind = "object"
  /\ JsTruthy(DateOf(tx))
  /\ TransactionDate(DateOf(tx)) /= NoDateGiven
  /\ \/ fromDate /= NoDateGiven /\ TransactionDate(DateOf(tx)) < fromDate
     \/ toDate /= NoDateGiven /\ TransactionDate(DateOf(tx)) > toDate

\* C24: the records aggregated are, in their order, the records of the
\* response that have no parseable date strictly before fromDate or strictly
\* after toDate; with neither bound all of them.
C24_FailOpen ==
  (agg.phase = "result" /\ agg.reached)
    => /\ agg.filtered
            = SelectSeq(TransactionsOf(agg.jsonData),
                        LAMBDA tx : ~OutsideRange(tx, agg.fromDate, agg.toDate))
       /\ (agg.fromDate = NoDateGiven /\ agg.toDate = NoDateGiven)
            => agg.filtered = TransactionsOf(agg.jsonData)

\* with a bound supplied, a record dated outside is dropped while a record
\* without date and a record with an unparseable date are kept
C24_Witness ==
  /\ agg.phase = "result" /\ agg.reached
  /\ agg.toDate /= NoDateGiven
  /\ Len(TransactionsOf(agg.jsonData)) = 3
  /\ Len(agg.filtered) = 2
  /\ OutsideRange(TransactionsOf(agg.jsonData)[1], agg.fromDate, agg.toDate)
  /\ ~JsTruthy(DateOf(agg.filtered[1]))
  /\ JsTruthy(DateOf(agg.filtered[2]))
  /\ TransactionDate(DateOf(agg.filtered[2])) = NoDateGiven

\* C25: processOpenRouterResponse never raises, and its result is the zero
\* value for a response that is no JSON or holds no transaction array.
C25_Recoverable ==
  agg.phase = "result"
    => /\ ~agg.raised
       /\ (agg.response \in AggMalformed
             \/ agg.jsonData.shape \notin {"data", "data.data", "array"})
            => agg.result = ZeroResult

\* a string that is no JSON has been processed, with the zero value as result
C25_Witness ==
  /\ agg.phase = "result"
  /\ agg.response = "text"
  /\ ~agg.raised
  /\ agg.result = ZeroResult

\* C26: a call of warn or error whose entry localStorage accepts is written
\* to the console and stored, whatever the log level and the debug flag; a
\* call of debug with the debug flag off writes nothing to the console.
C26_WarnErrorSurfaced ==
  /\ (log.phase = "run" /\ log.last.fn \in {"warn", "error"}
        /\ log.last.quota = "none")
       => (log.last.console /\ log.last.stored)
  /\ (log.phase = "run" /\ log.last.fn = "debug" /\ ~log.last.devMode)
       => ~log.last.console

\* C27: a call of debug made while the debug flag is on is written to the
\* console.
C27_DebugEmitted ==
  (log.phase = "run" /\ log.last.fn = "debug" /\ log.last.via = "call"
     /\ log.last.devMode)
    => log.last.console

\* a step that is a call of fetchActivityData answered by the exact-match
\* lookup
ExactHit ==
  /\ obs'.op = "call"
  /\ obs'.cacheRead /= NULL
  /\ obs'.hitKey = RequestKey(obs'.from, obs'.to)
  /\ obs'.hitKey \in DOMAIN written

\* C28: the exact-match lookup returns no payload that was stored more than
\* 15 minutes earlier, whatever was written to the cache in between.
C28_TtlPerEntry ==
  [][ExactHit => now - written[obs'.hitKey].time <= 15 * 60 * 1000]_vars

\* the first and the last day of the range a set stores its payload for: its
\* arguments, the current month when one of them is missing
SetFromDay(w) == IF w.from = NULL \/ w.to = NULL THEN 1 ELSE DayOf(w.from)

SetToDay(w) == IF w.from = NULL \/ w.to = NULL THEN 31 ELSE DayOf(w.to)

\* C30: with the debug flag off, a payload returned for a request with both
\* boundaries without a network request was stored by a set whose range
\* [cf, ct] satisfies cf <= from and to <= ct.
C30_CacheSoundness ==
  [][( /\ ~DEV_MODE
       /\ obs'.op = "call"
       /\ obs'.from \in DayStrings /\ obs'.to \in DayStrings
       /\ obs'.outcome /= "pending" )
     => /\ obs'.requests = 0
        /\ obs'.hitKey \in DOMAIN written
        /\ written[obs'.hitKey].data = obs'.value
        /\ SetFromDay(written[obs'.hitKey]) <= DayOf(obs'.from)
        /\ DayOf(obs'.to) <= SetToDay(written[obs'.hitKey])]_vars

\* a request for one day was answered with the payload a set for a wider
\* range had stored
C30_Witness ==
  /\ obs.op = "call" /\ obs.outcome = "cached"
  /\ obs.from = DateStr(2) /\ obs.to = DateStr(2)
  /\ obs.hitKey = EntryKey(1, 2)
  /\ obs.hitKey \in DOMAIN written
  /\ written[obs.hitKey].from = DateStr(1)
  /\ written[obs.hitKey].to = DateStr(2)

\* a step that is a write of the range cache in which no setItem throws
CompletedSet == obs'.op = "respond" /\ obs'.outcome = "ok" /\ obs'.quota = "none"

\* the payload records the write of this step has set
SetKeys == {w[1] : w \in {x \in obs'.wrote : IsPayloadKey(x[1])}}

\* the entries the eviction pass of this step has removed
Evicted == (PayloadKeys(store) \cup SetKeys) \ DOMAIN store'

\* when the entry k, in the store as the eviction pass starts, was stored
StoredAt(k) == IF k \in SetKeys THEN now ELSE written[k].time

\* C29: an eviction pass removes the entries stored earliest: it keeps no
\* entry that was stored earlier than an entry it removes.
C29_EvictionOrder ==
  [][CompletedSet
       => \A r \in Evicted : \A k \in PayloadKeys(store') :
            ~(StoredAt(k) < StoredAt(r))]_vars

\* what the exact-match lookup gives for the stored entry k
ExactValue(s, k) == getCachedDataByKey(s, k, now).value

\* the entries this step has removed
RemovedEntries == PayloadKeys(store) \ DOMAIN store'

\* C31: a step that removes the entry of one range (on an expiry check, a
\* corruption discard or an eviction) leaves the lookup of every other stored
\* range as it was, also of the ranges that end on the same day.
C31_RemovalFrame ==
  [][\A k \in PayloadKeys(store) \cap DOMAIN store' :
       ( /\ RemovedEntries /= {}
         /\ obs'.quota = "none"
         /\ \A w \in obs'.wrote : w[1] /= k
         /\ ExactValue(store, k) /= NULL )
       => ExactValue(store', k) = ExactValue(store, k)]_vars

\* the payloads the caches hold: those of the range cache and the dev payload
CachedPayloads(s) ==
  {s[k] : k \in PayloadKeys(s) \cup ({CACHE_KEY} \cap DOMAIN s)}

\* C32: a fetch returns no cached payload that is not parseable JSON, from
\* the exact entry, a covering entry or the dev cache; a call made while every
\* cached payload is unparseable issues its network request.
C32_OnlyParseableReturned ==
  [][obs'.op = "call"
       => /\ obs'.outcome \in {"cached", "dev"} => JSONParse(obs'.value) /= "throws"
          /\ (\A v \in CachedPayloads(store) : JSONParse(v) = "throws")
               => (obs'.outcome = "pending" /\ obs'.requests = 1)]_vars

\* the scan gave the payload of a covering entry that does not parse, with
\* the debug flag on, and the call went on to the network
C32_Witness ==
  /\ obs.op = "call" /\ obs.outcome = "pending" /\ obs.requests = 1
  /\ obs.cacheRead = BodyHtml
  /\ DEV_MODE


(***************************************************************************)
(* SpecMsg: the runs of the analyzer's pipeline and the messages they post *)
(* to the page (part_002, messaging.ts, part_000).  A run is started by a  *)
(* click on the analyze button, through onClickWithLoading, or by the URL  *)
(* monitor, and settles in a later step; the response it is given and the  *)
(* way displayResults ends are inputs of that step.  `page` holds the URL  *)
(* parameters, lastDateParams, the analyze button, the runs in flight, the *)
(* messages posted so far and the run whose result is displayed; `calls`   *)
(* counts the runs started.                                                *)
(***************************************************************************)
MsgSlots == 1..MaxMsgSlots

MsgUrls == {<<NULL, NULL>>, <<DateStr(1), DateStr(2)>>, <<DateStr(3), DateStr(4)>>}

ButtonText == "Group by Model"

LoadingText == "Loading..."

NoRun ==
  [phase |-> "idle", trigger |-> "none", via |-> "none", n |-> 0,
   range |-> <<NULL, NULL>>, originalText |-> ""]

\* what a run is given by fetchComprehensiveActivityData: it throws, or
\* returns a value that is no object, an object without transactions, one
\* whose first transaction is no object, one from which no cost results, or
\* one with costs
MsgResponses ==
  {"throws", "scalar", "noTransactions", "scalarSample", "noCosts", "costs"}

\* UIManager.displayResults returns or throws
MsgDisplays == {"ok", "throws"}

\* window.postMessage of MessageHandler
postMessage(pg, r, type) ==
  [pg EXCEPT !.posted = Append(pg.posted,
     [run |-> r.n, trigger |-> r.trigger, type |-> type, range |-> r.range])]

sendInfo(pg, r) == postMessage(pg, r, "info")

sendResult(pg, r) == postMessage(pg, r, "result")

sendError(pg, r) == postMessage(pg, r, "error")

\* UIManager.displayResults: the results of run r replace those displayed
displayResults(pg, r) == [pg EXCEPT !.displayed = r.n]

InitMsg ==
  /\ store = <<>>
  /\ written = <<>>
  /\ now = 0
  /\ DEV_MODE = FALSE
  /\ inflight = [i \in Slots |-> Idle]
  /\ calls = 0
  /\ obs = NoObs
  /\ agg = NoAgg
  /\ log = NoLog
  /\ \E u \in MsgUrls :
       page = [url |-> u, last |-> u, popstate |-> FALSE,
               disabled |-> FALSE, text |-> ButtonText,
               runs |-> [i \in MsgSlots |-> NoRun],
               posted |-> <<>>, displayed |-> 0, step |-> "none"]

\* the run started next by trigger tr, from the caller `via`, for the range
\* of the URL parameters completed from the page and post-processed
NewRun(pg, tr, via, dom) ==
  LET r0 == resolveDates(pg.url[1], pg.url[2], dom)
      r == normalizeDates(r0[1], r0[2], PipeStartHour, 0)
  IN  [phase |-> "fetching", trigger |-> tr, via |-> via, n |-> calls + 1,
       range |-> r, originalText |-> pg.text]

MsgFirstFree(pg, i) ==
  /\ pg.runs[i].phase = "idle"
  /\ \A j \in MsgSlots : j < i => pg.runs[j].phase /= "idle"

\* the dates of the URL change: by navigation in the history, which fires
\* popstate and so schedules a check, or by replaceState, which fires nothing
MsgUrlChange(u, history) ==
  /\ u /= page.url
  /\ page' = [page EXCEPT !.url = u, !.popstate = history \/ page.popstate,
                          !.step = "url"]
  /\ UNCHANGED <<store, now, DEV_MODE, inflight, calls, obs>>

\* a URL monitor that starts a run without taking note of the parameters
checkUrlChangeForgetful(pg, i, dom, via) ==
  LET seen == [pg EXCEPT !.step = via,
                         !.popstate = IF via = "popstate" THEN FALSE ELSE pg.popstate]
  IN  IF pg.url /= pg.last
        THEN [seen EXCEPT !.runs[i] = NewRun(pg, "auto", via, dom)]
        ELSE seen

\* checkUrlChange of setupUrlChangeMonitoring up to the first await of
\* triggerAutoRefresh, which posts no message
checkUrlChange(pg, i, dom, via) ==
  LET seen == [pg EXCEPT !.step = via,
                         !.popstate = IF via = "popstate" THEN FALSE ELSE pg.popstate]
  IN  IF pg.url /= pg.last
        THEN [seen EXCEPT !.last = pg.url,
                          !.runs[i] = NewRun(pg, "auto", via, dom)]
        ELSE seen

\* a check by the 500 ms poll or by the timeout set on popstate
MsgCheck(i, dom, via) ==
  /\ via = "popstate" => page.popstate
  /\ page.url /= page.last => (calls < MaxMsgRuns /\ MsgFirstFree(page, i))
  /\ page.url = page.last => i = 1
  /\ page' = checkUrlChange(page, i, dom, via)
  /\ calls' = IF page.url /= page.last THEN calls + 1 ELSE calls
  /\ UNCHANGED <<store, now, DEV_MODE, inflight, obs>>

\* onClickWithLoading up to the first await of analyzeData: the button is
\* disabled and shows the loading text, and the informational message is posted
onClickWithLoading(pg, i, dom) ==
  LET r == NewRun(pg, "analyze", "click", dom)
      loading == [pg EXCEPT !.disabled = TRUE, !.text = LoadingText,
                            !.runs[i] = r, !.step = "click"]
  IN  sendInfo(loading, r)

\* a click on the analyze button; a disabled button fires no click
MsgAnalyzeClick(i, dom) ==
  /\ ~page.disabled
  /\ calls < MaxMsgRuns
  /\ MsgFirstFree(page, i)
  /\ page' = onClickWithLoading(page, i, dom)
  /\ calls' = calls + 1
  /\ UNCHANGED <<store, now, DEV_MODE, inflight, obs>>

\* the rest of analyzeData once fetchComprehensiveActivityData has settled
analyzeDataSettled(pg, r, response, display) ==
  IF response /= "costs"
    THEN sendError(pg, r)
    ELSE LET sent == sendResult(pg, r)
         IN  IF display = "throws" THEN sendError(sent, r)
             ELSE displayResults(sent, r)

\* processAndDisplayResults of the auto-refresh
processAndDisplayResults(pg, r, response, display) ==
  IF response /= "costs"
    THEN sendError(pg, r)
    ELSE LET sent == sendResult(pg, r)
         IN  IF display = "throws" THEN sendError(sent, r)
             ELSE displayResults(sent, r)

\* the rest of triggerAutoRefresh: a fetch that throws is logged
triggerAutoRefreshSettled(pg, r, response, display) ==
  IF response = "throws" THEN pg
  ELSE processAndDisplayResults(pg, r, response, display)

\* a wrapper without the finally block
leaveButton(pg, r) == pg

\* the finally block of onClickWithLoading
restoreButton(pg, r) ==
  IF r.trigger = "analyze"
    THEN [pg EXCEPT !.disabled = FALSE, !.text = r.originalText]
    ELSE pg

\* the run on slot i settles
MsgSettle(i, response, display) ==
  /\ page.runs[i].phase = "fetching"
  /\ LET r == page.runs[i]
         left == [page EXCEPT !.runs[i] = NoRun, !.step = "settle"]
         done == IF r.trigger = "analyze"
                   THEN analyzeDataSettled(left, r, response, display)
                   ELSE triggerAutoRefreshSettled(left, r, response, display)
     IN  page' = restoreButton(done, r)
  /\ UNCHANGED <<store, now, DEV_MODE, inflight, calls, obs>>

NextMsg ==
  \/ \E u \in MsgUrls, history \in BOOLEAN :
       MsgUrlChange(u, history) /\ UNCHANGED <<agg, log, written>>
  \/ \E i \in MsgSlots, dom \in DomCases, via \in {"poll", "popstate"} :
       MsgCheck(i, dom, via) /\ UNCHANGED <<agg, log, written>>
  \/ \E i \in MsgSlots, dom \in DomCases :
       MsgAnalyzeClick(i, dom) /\ UNCHANGED <<agg, log, written>>
  \/ \E i \in MsgSlots, response \in MsgResponses, display \in MsgDisplays :
       MsgSettle(i, response, display) /\ UNCHANGED <<agg, log, written>>

SpecMsg == InitMsg /\ [][NextMsg]_vars


Posted(n) == {k \in DOMAIN page.posted : page.posted[k].run = n}

Terminal(n) == {k \in Posted(n) : page.posted[k].type \in {"result", "error"}}

InFlight(pg) == {pg.runs[i].n : i \in {j \in MsgSlots : pg.runs[j].phase = "fetching"}}

\* C33: a run started by the analyze button posts its informational message
\* first and after it at most one terminal message, so never both a result
\* and an error
C33_AtMostOneOutcome ==
  \A n \in 1..calls :
    (\E k \in Posted(n) : page.posted[k].trigger = "analyze")
      => /\ \A k \in Posted(n) :
              page.posted[k].type = "info" <=> (\A j \in Posted(n) : k <= j)
         /\ Cardinality(Terminal(n)) <= 1

\* C34: every run that has settled, whichever way it was started, has posted
\* a result message or an error message
C34_AtLeastOneOutcome ==
  \A n \in (1..calls) \ InFlight(page) : Terminal(n) /= {}

Results == {k \in DOMAIN page.posted : page.posted[k].type = "result"}

\* C35: once every run has settled, if each of them has posted its result and
\* none an error, the result posted last and the result displayed are those of
\* the range requested last
C35_LatestRangeDisplayed ==
  ( /\ InFlight(page) = {}
    /\ calls >= 2
    /\ \A n \in 1..calls : \E k \in Posted(n) : page.posted[k].type = "result"
    /\ \A k \in DOMAIN page.posted : page.posted[k].type /= "error" )
  => LET latest == CHOOSE k \in Results : page.posted[k].run = calls
         last == CHOOSE k \in Results : \A j \in Results : j <= k
     IN  /\ page.posted[last].range = page.posted[latest].range
         /\ \E k \in Posted(page.displayed) :
              page.posted[k].range = page.posted[latest].range

AnalyzeRuns(pg) ==
  {i \in MsgSlots : pg.runs[i].phase = "fetching" /\ pg.runs[i].trigger = "analyze"}

\* C36: the analyze button is disabled exactly while a run started from it is
\* in flight, so it starts a run only when none of its runs is in flight, and
\* an enabled button shows its original label
C36_ButtonLoadingState ==
  [][/\ page'.disabled <=> AnalyzeRuns(page') /= {}
     /\ Cardinality(AnalyzeRuns(page')) <= 1
     /\ ~page'.disabled => page'.text = ButtonText
     /\ page'.step = "click" => (~page.disabled /\ AnalyzeRuns(page) = {})]_vars

\* an analyze run has settled by a failure while an auto-refresh is in flight
C36_Witness ==
  /\ page.step = "settle"
  /\ ~page.disabled /\ page.text = ButtonText
  /\ page.posted /= <<>>
  /\ page.posted[Len(page.posted)].trigger = "analyze"
  /\ page.posted[Len(page.posted)].type = "error"
  /\ InFlight(page) /= {}

AutoRuns(pg) ==
  {pg.runs[i].n : i \in {j \in MsgSlots : /\ pg.runs[j].phase = "fetching"
                                           /\ pg.runs[j].trigger = "auto"}}

\* C37: a check of the URL monitor, by the poll or after popstate, that finds
\* the from/to parameters changed since the last check starts exactly one
\* auto-refresh and takes note of the parameters, and a check that finds them
\* unchanged starts none
C37_OneRefreshPerChange ==
  [][page'.step \in {"poll", "popstate"}
       => IF page.url /= page.last
            THEN /\ calls' = calls + 1
                 /\ AutoRuns(page') = AutoRuns(page) \cup {calls + 1}
                 /\ page'.last = page.url
            ELSE /\ calls' = calls
                 /\ page'.runs = page.runs
                 /\ page'.last = page.last]_vars

\* the poll has started the auto-refresh of a change made by navigation, and
\* the check set on popstate has then found the parameters unchanged
C37_Witness ==
  /\ page.step = "popstate"
  /\ calls = 1
  /\ page.url = page.last
  /\ \E i \in MsgSlots : /\ page.runs[i].phase = "fetching"
                         /\ page.runs[i].via = "poll"


(***************************************************************************)
(* SpecWindow: calculateWindowParam alone (api.ts:272-290).  A behaviour   *)
(* starts with the two parameters of a fetch and applies the function;     *)
(* `agg` holds the parameters and the window parameter.                    *)
(***************************************************************************)
WindowParams ==
  {NULL, "", "2023-12-31", "2024-01-01", "2024-01-02", "2024-01-31",
   "2024-02-29", "2024-03-01", "2024-12-31", "2025-01-01", "2025-06-30"}

\* Date.UTC(y, m - 1, d) in days, by the civil calendar
DaysFromCivil(y, m, d) ==
  LET yy == IF m <= 2 THEN y - 1 ELSE y
      era == yy \div 400
      yoe == yy - era * 400
      mp == IF m > 2 THEN m - 3 ELSE m + 9
      doy == (153 * mp + 2) \div 5 + d - 1
      doe == yoe * 365 + yoe \div 4 - yoe \div 100 + doy
  IN  era * 146097 + doe - 719468

\* new Date('YYYY-MM-DD').getTime() in days: midnight UTC of that day
DateDays(str) ==
  DaysFromCivil(DigitsNumber(str, 1, 5), DigitsNumber(str, 6, 8),
                DigitsNumber(str, 9, 11))

\* String(n) of a natural number
RECURSIVE NatToString(_)
NatToString(n) ==
  IF n < 10 THEN DigitChars[n + 1]
  ELSE NatToString(n \div 10) \o DigitChars[(n % 10) + 1]

\* Math.ceil(a / b) of naturals
CeilDiv(a, b) == (a + b - 1) \div b

Min(a, b) == IF a <= b THEN a ELSE b

Abs(a) == IF a < 0 THEN 0 - a ELSE a

calculateWindowParam(fromParam, toParam) ==
  IF Truthy(fromParam) /\ Truthy(toParam)
    THEN LET diffDays == Abs(DateDays(toParam) - DateDays(fromParam))
             diffMonths == CeilDiv(diffDays, 30)
         IN  NatToString(Min(diffMonths, 12)) \o "mo"
    ELSE "1mo"

InitWindow ==
  /\ store = <<>>
  /\ written = <<>>
  /\ now = 0
  /\ DEV_MODE = FALSE
  /\ inflight = [i \in Slots |-> Idle]
  /\ calls = 0
  /\ obs = NoObs
  /\ page = NoPage
  /\ log = NoLog
  /\ \E f \in WindowParams, t \in WindowParams :
       agg = [phase |-> "params", fromParam |-> f, toParam |-> t,
              windowParam |-> NULL]

CalculateWindow ==
  /\ agg.phase = "params"
  /\ agg' = [agg EXCEPT !.phase = "window",
               !.windowParam = calculateWindowParam(agg.fromParam, agg.toParam)]
  /\ UNCHANGED <<store, now, DEV_MODE, inflight, calls, obs, page, log, written>>

NextWindow == CalculateWindow

SpecWindow == InitWindow /\ [][NextWindow]_vars

\* the number N of a window parameter "Nmo", -1 if it has no such form
WindowMonths(w) ==
  LET k == DigitsEnd(w, 1)
  IN  IF k > 1 /\ SubSeq(w, k, Len(w)) = "mo" THEN DigitsNumber(w, 1, k) ELSE 0 - 1

\* C38: the window parameter computed for a range is "Nmo" with N a whole
\* number from 1 to 12, also for a range of one day, and N is 1 when a
\* boundary is missing
C38_WindowRange ==
  agg.phase = "window"
    => LET N == WindowMonths(agg.windowParam)
       IN  /\ 1 <= N /\ N <= 12
           /\ (~Truthy(agg.fromParam) \/ ~Truthy(agg.toParam)) => N = 1


(***************************************************************************)
(* SpecEndDay: the processing step of a pipeline run for a range           *)
(* (part_002:660-692, 269-274) applied to a response of one record with a  *)
(* timestamp.  `agg` holds the range as the run resolved it, the response  *)
(* and what the data processor made of it.                                 *)
(***************************************************************************)
EndDayDates == {NULL} \cup {DateStr(d) : d \in 13..15}

\* the timestamps of the record, every six hours from the day before the
\* first date to the day after the last one, in hours
EndDayHours == {11 * 24 + 6 * k : k \in 0..20}

EndDayRecord(h) ==
  Tx([model |-> JsStr("openai/gpt-4"), usage |-> JsNum(1),
      prompt_tokens |-> JsNum(5), timestamp |-> JsNum(h * MsPerHour)])

\* `str ? new Date(str) : null`, an Invalid Date being replaced by null
toDateObj(str) ==
  IF Truthy(str) /\ IsDateStr(str) THEN DateTime(str) ELSE NoDateGiven

InitEndDay ==
  /\ store = <<>>
  /\ written = <<>>
  /\ now = 0
  /\ DEV_MODE = FALSE
  /\ inflight = [i \in Slots |-> Idle]
  /\ calls = 0
  /\ obs = NoObs
  /\ page = NoPage
  /\ log = NoLog
  /\ \E f \in EndDayDates, t \in EndDayDates, h \in EndDayHours :
       agg = [phase |-> "fetched", fromDate |-> f, toDate |-> t, hour |-> h,
              responseData |-> [shape |-> "data",
                                transactions |-> <<EndDayRecord(h)>>],
              filtered |-> <<>>, result |-> ZeroResult]

\* the processing of analyzeData and of processAndDisplayResults
ProcessRange ==
  /\ agg.phase = "fetched"
  /\ LET fromDateObj == toDateObj(agg.fromDate)
         toDateObjOfRun == toDateObj(agg.toDate)
         r == processOpenRouterResponse("object", agg.responseData, fromDateObj,
                                        toDateObjOfRun)
     IN  agg' = [agg EXCEPT
                   !.phase = "processed",
                   !.filtered = filterTransactions(TransactionsOf(agg.responseData),
                                                   fromDateObj, toDateObjOfRun),
                   !.result = r.result]
  /\ UNCHANGED <<store, now, DEV_MODE, inflight, calls, obs, page, log, written>>

NextEndDay == ProcessRange

SpecEndDay == InitEndDay /\ [][NextEndDay]_vars

\* the hours of the calendar day of date string d after its first instant
DuringDay(d) == {DateTime(d) + k : k \in 1..23}

\* C39: in a run for [from, to], a record whose timestamp falls during the
\* day `to`, after its first instant, is part of the aggregate
C39_EndDayIncluded ==
  ( /\ agg.phase = "processed"
    /\ Truthy(agg.fromDate) /\ Truthy(agg.toDate)
    /\ DateTime(agg.fromDate) <= DateTime(agg.toDate)
    /\ agg.hour \in DuringDay(agg.toDate) )
  => /\ agg.filtered = <<EndDayRecord(agg.hour)>>
     /\ DOMAIN agg.result.costs /= {}


(***************************************************************************)
(* SpecServer: the OAuth callback server (scripts/modules/server.js) with  *)
(* the callbacks of generate-refresh-token-from-json.js.  `agg` holds the  *)
(* requests with the responses written to each, the calls of the two       *)
(* callbacks, the timer set after a successful exchange, and whether the   *)
(* server listens and the process runs.  A request for an authorization    *)
(* code is suspended at the token exchange and resumed in a later step.    *)
(***************************************************************************)
Requests == 1..MaxRequests

\* '/?code=...', '/?error=...', any other URL
RequestKinds == {"code", "error", "other"}

\* OAuth.exchangeCodeForTokens resolves with tokens that hold a refresh
\* token, resolves with an object without one, or rejects
ExchangeOutcomes == {"tokens", "noRefreshToken", "rejects"}

NoRequest ==
  [phase |-> "idle", kind |-> "none", outcome |-> "none", responses |-> <<>>,
   onError |-> 0, onSuccess |-> 0, rejected |-> FALSE]

\* sendResponse: res.writeHead throws once the response has been ended
sendResponse(r, statusCode) ==
  IF r.responses /= <<>> THEN [r |-> r, threw |-> TRUE]
  ELSE [r |-> [r EXCEPT !.responses = Append(@, statusCode)], threw |-> FALSE]

\* the catch block of handleRequest: a throw of sendResponse leaves it before
\* onError and rejects the promise of the handler
handleRequestCatch(r) ==
  LET sent == sendResponse(r, 500)
  IN  IF sent.threw THEN [sent.r EXCEPT !.rejected = TRUE]
      ELSE [sent.r EXCEPT !.onError = @ + 1]

\* handleAuthCode from the end of the token exchange; threw tells whether it
\* rethrows to handleRequest
handleAuthCode(r, outcome) ==
  IF outcome = "tokens"
    THEN LET sent == sendResponse(r, 200)
         IN  [r |-> [sent.r EXCEPT !.onSuccess = @ + 1], threw |-> FALSE]
    ELSE [r |-> sendResponse(r, 500).r, threw |-> TRUE]

InitServer ==
  /\ store = <<>>
  /\ written = <<>>
  /\ now = 0
  /\ DEV_MODE = FALSE
  /\ inflight = [i \in Slots |-> Idle]
  /\ calls = 0
  /\ obs = NoObs
  /\ page = NoPage
  /\ log = NoLog
  /\ agg = [reqs |-> [i \in Requests |-> NoRequest], listening |-> TRUE,
            timer |-> FALSE, exited |-> FALSE]

NextRequest(i) ==
  /\ agg.reqs[i].phase = "idle"
  /\ \A j \in Requests : j < i => agg.reqs[j].phase /= "idle"

\* handleRequest up to its first await; onTokenError ends the process
HandleRequest(i, kind) ==
  /\ agg.listening /\ ~agg.exited
  /\ NextRequest(i)
  /\ LET r == [NoRequest EXCEPT !.kind = kind]
     IN  agg' =
           IF kind = "code"
             THEN [agg EXCEPT !.reqs[i] = [r EXCEPT !.phase = "exchanging"]]
           ELSE IF kind = "error"
             THEN LET sent == sendResponse(r, 400)
                  IN  [agg EXCEPT
                         !.reqs[i] = [sent.r EXCEPT !.phase = "done",
                                                    !.onError = @ + 1],
                         !.exited = TRUE]
           ELSE [agg EXCEPT
                   !.reqs[i] = [sendResponse(r, 200).r EXCEPT !.phase = "done"]]
  /\ UNCHANGED <<store, now, DEV_MODE, inflight, calls, obs, page, log, written>>

\* the token exchange of request i settles; an unhandled rejection of the
\* handler ends the process or not, as the runtime decides
ExchangeSettles(i, outcome, crash) ==
  /\ ~agg.exited
  /\ agg.reqs[i].phase = "exchanging"
  /\ LET r == [agg.reqs[i] EXCEPT !.outcome = outcome]
         handled == handleAuthCode(r, outcome)
         after == IF handled.threw THEN handleRequestCatch(handled.r)
                  ELSE handled.r
     IN  agg' = [agg EXCEPT
                   !.reqs[i] = [after EXCEPT !.phase = "done"],
                   !.timer = @ \/ ~handled.threw,
                   !.exited = (after.rejected /\ crash) \/ after.onError > 0]
  /\ UNCHANGED <<store, now, DEV_MODE, inflight, calls, obs, page, log, written>>

\* the timeout set after a successful exchange: stop() closes the server
StopServer ==
  /\ ~agg.exited
  /\ agg.timer
  /\ agg' = [agg EXCEPT !.timer = FALSE, !.listening = FALSE]
  /\ UNCHANGED <<store, now, DEV_MODE, inflight, calls, obs, page, log, written>>

NextServer ==
  \/ \E i \in Requests, kind \in RequestKinds : HandleRequest(i, kind)
  \/ \E i \in Requests, outcome \in ExchangeOutcomes, crash \in BOOLEAN :
       ExchangeSettles(i, outcome, crash)
  \/ StopServer

SpecServer == InitServer /\ [][NextServer]_vars

\* C40: a request that has been handled has one response written, and the
\* error callback has been called for an authorization-code request whose
\* exchange failed or gave no refresh token
C40_OneResponseAndErrorCallback ==
  \A i \in Requests :
    agg.reqs[i].phase = "done"
      => /\ Len(agg.reqs[i].responses) = 1
         /\ agg.reqs[i].outcome \in {"noRefreshToken", "rejects"}
              => agg.reqs[i].onError >= 1

====
